---- MODULE Spec2Model ----
(***************************************************************************)
(* Model of the Boson bytecode VM runtime core: the bounded data stack and *)
(* call stack (vm/stack.rs), the instruction handlers (vm/controls.rs) and *)
(* the arithmetic kernels (isa/alu.rs).  The instruction stream is not     *)
(* modelled as a fixed program: at every step the VM may execute any       *)
(* instruction with any operand, which covers every bytecode the loader    *)
(* can hand to the VM.                                                     *)
(***************************************************************************)
EXTENDS Integers, Sequences, FiniteSets, TLC

VARIABLES
    ds,        \* ds[vm]: the DataStack of a VM: [stack, stack_pointer]
    cs,        \* cs[vm]: the CallStack of a VM: [stack, stack_pointer]
    status,    \* status[vm]: "idle" | "running" | "waiting" | "done" | "error" | "panic"
    error,     \* error[vm]: the VMError that ended the VM (kind "None" while there is none)
    result,    \* result[vm]: the object a finished VM returned
    pools,     \* pools[p]: the contents of global pool p
    gp,        \* gp[vm]: the global pool the VM reads and writes
    last,      \* the instruction executed by the latest step and its outcome
    compiled,  \* compiled[vm]: the VM runs bytecode the compiler produced (operand discipline holds)
    snap,      \* snap[vm]: a worker's global pool as it was when the worker was spawned
    wrote,     \* wrote[vm]: the global slots the VM has stored to itself
    joining,   \* joining[vm]: the worker a VM blocked in LaunchAndJoin waits for (0: none)
    concurrency, \* the build's ENABLE_CONCURRENCY
    steps,     \* the instructions dispatched so far, counted where programs are of bounded length
    heap       \* the arrays, hash tables and iterators allocated so far, by address (from 1)

vars == <<ds, cs, status, error, result, pools, gp, last, compiled, snap, wrote, joining,
          concurrency, steps, heap>>

-----------------------------------------------------------------------------
(* Bounds of the model *)

DATA_STACK_SIZE == 3
FRAME_STACK_SIZE == 4
GLOBAL_POOL_SIZE == 1
MaxWorkers == 2
MaxArgs == 1
MaxSteps == 6
MaxProgram == 12

VMs == 0 .. MaxWorkers
MainVM == 0
Workers == 1 .. MaxWorkers

-----------------------------------------------------------------------------
(* Objects: one record shape for every variant of Object.                  *)
(*   Int: a = value.  Float: the rational a / b (b > 0, lowest terms).     *)
(*   Str: e = the characters (indices into StrTable).  Bool: a = 0 | 1.    *)
(*   Array, HashTable, Iter: a = address of the cell in the heap (the      *)
(*   RefCell the Rc points to).                                            *)
(*   Subroutine, ClosureContext: a = index of the compiled function,       *)
(*   e = captured free objects.  Builtins: a = index of the intrinsic.     *)
(*   Thread: a = worker id.                                                *)

Obj(t, a, b, e) == [t |-> t, a |-> a, b |-> b, e |-> e]
Noval == Obj("Noval", 0, 0, <<>>)
IntObj(v) == Obj("Int", v, 0, <<>>)
FloatObj(n, d) == Obj("Float", n, d, <<>>)
StrObj(chars) == Obj("Str", 0, 0, chars)
BoolObj(x) == Obj("Bool", IF x THEN 1 ELSE 0, 0, <<>>)
BuiltinObj(k) == Obj("Builtins", k, 0, <<>>)
SubroutineObj(f) == Obj("Subroutine", f, 0, <<>>)
ClosureObj(f, frees) == Obj("ClosureContext", f, 0, frees)
ThreadObj(w) == Obj("Thread", w, 0, <<>>)
ArrayObj(addr) == Obj("Array", addr, 0, <<>>)
HashObj(addr) == Obj("HashTable", addr, 0, <<>>)
IterObj(addr) == Obj("Iter", addr, 0, <<>>)

(* The compiled functions of the program: index 0 is the entry routine.    *)
CompiledFns ==
    [f \in 0 .. 4 |->
        CASE f = 0 -> [name |-> "main", num_parameters |-> 0, num_locals |-> 0]
          [] f = 1 -> [name |-> "f00", num_parameters |-> 0, num_locals |-> 0]
          [] f = 2 -> [name |-> "f01", num_parameters |-> 0, num_locals |-> 1]
          [] f = 3 -> [name |-> "f11", num_parameters |-> 1, num_locals |-> 1]
          [] f = 4 -> [name |-> "f02", num_parameters |-> 0, num_locals |-> 2]]

num_parameters(closure) == CompiledFns[closure.a].num_parameters
num_locals(closure) == CompiledFns[closure.a].num_locals

(* The constant pool delivered by the compiler (0-based positions).        *)
ConstantPool ==
    <<IntObj(1), SubroutineObj(1), SubroutineObj(2), SubroutineObj(3),
      IntObj(-1), IntObj(0), IntObj(3), StrObj(<<1>>)>>

cp_get_object(pos) ==
    IF pos >= 0 /\ pos < Len(ConstantPool)
    THEN [some |-> TRUE, obj |-> ConstantPool[pos + 1]]
    ELSE [some |-> FALSE, obj |-> Noval]

(* Object::get_type and Object::describe: the type name, and the rendering *)
(* of the value that printing and assertion messages use.                  *)
StrTable == <<"a", "b">>

RECURSIVE str_of(_)
str_of(chars) == IF chars = <<>> THEN "" ELSE StrTable[Head(chars)] \o str_of(Tail(chars))

get_type(o) ==
    CASE o.t = "Int" -> "int"
      [] o.t = "Float" -> "float"
      [] o.t = "Str" -> "string"
      [] o.t = "Bool" -> "bool"
      [] o.t = "Noval" -> "noval"
      [] o.t = "Subroutine" -> "func"
      [] o.t = "ClosureContext" -> "closure"
      [] o.t = "Builtins" -> "builtin"
      [] o.t = "Thread" -> "thread"
      [] o.t = "Array" -> "array"
      [] o.t = "HashTable" -> "hash"
      [] o.t = "Iter" -> "iter"
      [] OTHER -> "object"

describe(o) ==
    CASE o.t = "Int" -> ToString(o.a)
      [] o.t = "Float" -> ToString(o.a) \o "/" \o ToString(o.b)
      [] o.t = "Str" -> str_of(o.e)
      [] o.t = "Bool" -> IF o.a = 1 THEN "true" ELSE "false"
      [] o.t = "Noval" -> "None"
      [] o.t = "Subroutine" -> "Function<" \o CompiledFns[o.a].name \o ">"
      [] o.t = "ClosureContext" -> "Closure<" \o CompiledFns[o.a].name \o ">"
      [] o.t = "Builtins" -> "Builtin<" \o ToString(o.a) \o ">"
      [] o.t = "Thread" -> "Thread<" \o ToString(o.a) \o ">"
      [] OTHER -> "?"

-----------------------------------------------------------------------------
(* Results of handlers.  r is "Ok", "Err" (a VMError of kind `kind` with    *)
(* message `msg`) or "Panic" (the Rust code panics: unwrap of None, index   *)
(* out of bounds, arithmetic overflow in a checked build).                  *)

NoMsg == <<>>
NoFrame == [closure |-> Noval, base_pointer |-> 0, ip |-> 0, h |-> 0, depth |-> 0]
Res(r, kind, msg, d) ==
    [r |-> r, kind |-> kind, msg |-> msg, ds |-> d, obj |-> Noval, objs |-> <<>>,
     some_frame |-> FALSE, frame |-> NoFrame]
Ok(d) == Res("Ok", "None", NoMsg, d)
OkObj(d, o) == [Ok(d) EXCEPT !.obj = o]
OkObjs(d, os) == [Ok(d) EXCEPT !.objs = os]
OkFrame(d, f) == [Ok(d) EXCEPT !.some_frame = TRUE, !.frame = f]
Err(kind, msg, d) == Res("Err", kind, msg, d)
Panic(d) == Res("Panic", "None", NoMsg, d)
Fail(p) == Res(p.r, p.kind, p.msg, p.ds)

NewDataStack == [stack |-> <<>>, stack_pointer |-> -1]
NewCallStack == [stack |-> <<>>, stack_pointer |-> -1]
StackOn(objects) == [stack |-> objects, stack_pointer |-> Len(objects) - 1]

-----------------------------------------------------------------------------
(* DataStack (vm/stack.rs) *)

(* `x as usize >= max_size` for an i64 x: a negative x is a huge usize.     *)
AsUsizeGe(x, max) == x < 0 \/ x >= max

push_object(d, obj) ==
    IF AsUsizeGe(d.stack_pointer + 1, DATA_STACK_SIZE)
    THEN Err("DataStackOverflow", NoMsg, d)
    ELSE Ok([stack |-> Append(d.stack, obj), stack_pointer |-> d.stack_pointer + 1])

push_objects(d, objects) ==
    IF d.stack_pointer + Len(objects) >= DATA_STACK_SIZE
    THEN Err("DataStackOverflow", NoMsg, d)
    ELSE Ok([stack |-> d.stack \o objects, stack_pointer |-> d.stack_pointer + Len(objects)])

pop_object(d) ==
    IF d.stack_pointer = -1
    THEN Err("DataStackUnderflow", NoMsg, d)
    ELSE IF Len(d.stack) = 0
         THEN \* stack.pop() is None, the pointer is decremented, unwrap() panics
              Panic([stack |-> <<>>, stack_pointer |-> d.stack_pointer - 1])
         ELSE OkObj([stack |-> SubSeq(d.stack, 1, Len(d.stack) - 1),
                     stack_pointer |-> d.stack_pointer - 1],
                    d.stack[Len(d.stack)])

get_top_ref(d) ==
    IF d.stack_pointer = -1
    THEN Err("DataStackUnderflow", NoMsg, d)
    ELSE IF d.stack_pointer < 0 \/ d.stack_pointer >= Len(d.stack)
         THEN Panic(d)
         ELSE OkObj(d, d.stack[d.stack_pointer + 1])

(* CallStack (vm/stack.rs) *)

push_frame(c, frame) ==
    IF c.stack_pointer + 1 >= FRAME_STACK_SIZE
    THEN [r |-> "Err", kind |-> "CallStackOverflow", cs |-> c]
    ELSE [r |-> "Ok", kind |-> "None",
          cs |-> [stack |-> Append(c.stack, frame), stack_pointer |-> c.stack_pointer + 1]]

pop_frame(c) ==
    IF c.stack_pointer = -1
    THEN [r |-> "Err", kind |-> "CallStackUnderflow", cs |-> c]
    ELSE IF Len(c.stack) = 0
         THEN [r |-> "Panic", kind |-> "None",
               cs |-> [stack |-> <<>>, stack_pointer |-> c.stack_pointer - 1]]
         ELSE [r |-> "Ok", kind |-> "None",
               cs |-> [stack |-> SubSeq(c.stack, 1, Len(c.stack) - 1),
                       stack_pointer |-> c.stack_pointer - 1]]

-----------------------------------------------------------------------------
(* Frames, global pool, built-ins: the interfaces the handlers call *)

(* ExecutionFrame::new(closure, bp): ip = 0.  h and depth are history      *)
(* fields: the data-stack height beneath the callee and its arguments at   *)
(* the call site, and the number of operands the frame's own code has      *)
(* pushed and not yet consumed.                                            *)
ExecutionFrame_new(closure, bp) ==
    [closure |-> closure, base_pointer |-> bp, ip |-> 0, h |-> 0, depth |-> 0]

get_bp(frame) == frame.base_pointer

NewGlobalPool == [i \in 1 .. GLOBAL_POOL_SIZE |-> Noval]

gp_get(pool, pos) ==
    IF pos >= 0 /\ pos < GLOBAL_POOL_SIZE
    THEN [some |-> TRUE, obj |-> pool[pos + 1]]
    ELSE [some |-> FALSE, obj |-> Noval]

gp_set_object(pool, obj, pos) ==
    IF pos >= 0 /\ pos < GLOBAL_POOL_SIZE
    THEN [some_error |-> FALSE, pool |-> [pool EXCEPT ![pos + 1] = obj]]
    ELSE [some_error |-> TRUE, pool |-> pool]

(* BuiltinKind::exec: an intrinsic produces an object or fails with a      *)
(* message; `fails` is the outcome the host decides.                       *)
builtin_exec(func, args, fails) ==
    IF fails
    THEN [ok |-> FALSE, obj |-> Noval, msg |-> "builtin failed"]
    ELSE [ok |-> TRUE, obj |-> IF Len(args) > 0 THEN args[1] ELSE Noval, msg |-> ""]

BuiltinKind_get_by_index(idx) == IF idx = 0 THEN [some |-> TRUE] ELSE [some |-> FALSE]

Reverse(s) == [i \in 1 .. Len(s) |-> s[Len(s) + 1 - i]]

-----------------------------------------------------------------------------
(* Controls (vm/controls.rs) *)

load_constant(d, pos) ==
    LET element == cp_get_object(pos) IN
    IF ~element.some THEN Panic(d) ELSE push_object(d, element.obj)

store_global(pool, d, pos) ==
    LET obj_res == pop_object(d) IN
    IF obj_res.r # "Ok" THEN [out |-> Fail(obj_res), pool |-> pool]
    ELSE LET set == gp_set_object(pool, obj_res.obj, pos) IN
         IF set.some_error
         THEN [out |-> Err("GlobalPoolSizeExceeded", NoMsg, obj_res.ds), pool |-> pool]
         ELSE [out |-> Ok(obj_res.ds), pool |-> set.pool]

load_global(pool, d, pos) ==
    LET object == gp_get(pool, pos) IN
    IF object.some THEN push_object(d, object.obj)
    ELSE Err("GlobalPoolSizeExceeded", NoMsg, d)

(* ds.stack[bp + pos] = popped: the index panics when it is out of bounds.  *)
(* A base pointer that wrapped around (held here as a negative number)     *)
(* either overflows the addition (checked build) or indexes out of bounds. *)
store_local(d, pos, frame) ==
    LET popped_result == pop_object(d) IN
    IF popped_result.r # "Ok" THEN Fail(popped_result)
    ELSE LET bp == get_bp(frame)
             d1 == popped_result.ds IN
         IF bp + pos < 0 \/ bp + pos >= Len(d1.stack) THEN Panic(d1)
         ELSE Ok([d1 EXCEPT !.stack[bp + pos + 1] = popped_result.obj])

load_local(d, pos, frame) ==
    LET bp == get_bp(frame) IN
    IF bp + pos < 0 \/ bp + pos >= Len(d.stack)
    THEN Err("DataStackOverflow", NoMsg, d)
    ELSE push_object(d, d.stack[bp + pos + 1])

RECURSIVE pop_n(_, _)
pop_n(d, n) ==
    IF n = 0 THEN OkObjs(d, <<>>)
    ELSE LET popped == pop_object(d) IN
         IF popped.r # "Ok" THEN Fail(popped)
         ELSE LET rest == pop_n(popped.ds, n - 1) IN
              IF rest.r # "Ok" THEN rest
              ELSE OkObjs(rest.ds, <<popped.obj>> \o rest.objs)

load_builtin(d, idx) ==
    IF ~BuiltinKind_get_by_index(idx).some
    THEN Err("UnresolvedBuiltinFunction", NoMsg, d)
    ELSE push_object(d, BuiltinObj(idx))

execute_return(d, frame, has_val) ==
    LET popped == IF has_val THEN pop_object(d) ELSE OkObj(d, Noval) IN
    IF popped.r # "Ok" THEN Fail(popped)
    ELSE LET local_boundary == get_bp(frame)
             d1 == popped.ds
             \* Vec::truncate(n) keeps the vector when n exceeds its length
             kept == IF local_boundary < 0 \/ local_boundary >= Len(d1.stack)
                     THEN d1.stack
                     ELSE SubSeq(d1.stack, 1, local_boundary)
             d2 == [stack |-> kept, stack_pointer |-> local_boundary - 1]
         IN [push_object(d2, popped.obj) EXCEPT !.obj = popped.obj]

(* The base pointer of the frame a closure call creates.                   *)
call_frame_bp(d, n_args) ==
    IF d.stack_pointer <= 0 THEN 0 ELSE Len(d.stack) - n_args

(* The stack pointer a closure call leaves behind.                         *)
call_new_sp(new_frame, n_locals) == new_frame.base_pointer + n_locals

(* `subroutine.num_parameters != n_args` in execute_call.                   *)
call_arity_mismatch(closure, n_args) == num_parameters(closure) # n_args

(* Call on a ClosureContext.  `checked` is whether the build traps integer *)
(* overflow: stack.len() - n_args underflows when fewer than n_args values *)
(* are on the stack; a checked build panics, an unchecked one wraps (the   *)
(* wrapped usize is held as the negative number it is congruent to).       *)
call_closure(d, closure, n_args, checked) ==
    IF call_arity_mismatch(closure, n_args)
    THEN Err("FunctionArgumentsError", NoMsg, d)
    ELSE IF checked /\ d.stack_pointer > 0 /\ Len(d.stack) < n_args
    THEN Panic(d)
    ELSE LET frame_bp == call_frame_bp(d, n_args)
             new_frame == ExecutionFrame_new(closure, frame_bp)
             n_locals == num_locals(closure)
             n_params == num_parameters(closure)
             local_space == [i \in 1 .. (n_locals - n_params) |-> Noval]
             push_res == push_objects(d, local_space)
         IN IF push_res.r # "Ok" THEN Fail(push_res)
            ELSE OkFrame([push_res.ds EXCEPT
                              !.stack_pointer = call_new_sp(new_frame, n_locals)],
                         new_frame)

builtin_args_as_popped(popped_args) == popped_args

(* args = popped_args.unwrap(); args.reverse()                             *)
builtin_args(popped_args) == Reverse(popped_args)

call_builtin(d, func, n_args, fails) ==
    LET popped_args == pop_n(d, n_args) IN
    IF popped_args.r # "Ok" THEN Fail(popped_args)
    ELSE LET args == builtin_args(popped_args.objs)
             exec_result == builtin_exec(func, args, fails)
         IN IF ~exec_result.ok
            THEN [Err("BuiltinFunctionError", <<exec_result.msg>>, popped_args.ds)
                      EXCEPT !.objs = args]
            ELSE [push_object(popped_args.ds, exec_result.obj) EXCEPT !.objs = args]

(* The message of the error for a value that cannot be called.             *)
cannot_call_msg(popped_obj) == <<"Cannot call", describe(popped_obj)>>

execute_call(d, n_args, checked, fails) ==
    LET popped == pop_object(d) IN
    IF popped.r # "Ok" THEN Fail(popped)
    ELSE LET popped_obj == popped.obj IN
         CASE popped_obj.t = "Builtins" ->
                  [call_builtin(popped.ds, popped_obj, n_args, fails) EXCEPT !.obj = popped_obj]
           [] popped_obj.t = "ClosureContext" ->
                  [call_closure(popped.ds, popped_obj, n_args, checked) EXCEPT !.obj = popped_obj]
           [] OTHER ->
                  [Err("StackCorruption", cannot_call_msg(popped_obj), popped.ds)
                       EXCEPT !.obj = popped_obj]

create_closure(d, n_free, func_idx) ==
    LET popped_res == pop_n(d, n_free) IN
    IF popped_res.r # "Ok" THEN Fail(popped_res)
    ELSE LET free_objects == popped_res.objs
             function_res == cp_get_object(func_idx)
         IN IF ~function_res.some
            THEN Err("InvalidGlobalIndex", NoMsg, popped_res.ds)
            ELSE IF function_res.obj.t = "Subroutine"
            THEN push_object(popped_res.ds, ClosureObj(function_res.obj.a, free_objects))
            ELSE Err("InvalidGlobalIndex", NoMsg, popped_res.ds)

-----------------------------------------------------------------------------
(* Arithmetic (isa/alu.rs).  An Int is Obj("Int", v); a Float is the       *)
(* rational a/b, b > 0, in lowest terms: Obj("Float", a, b).  The operand  *)
(* values stay far from the ends of i64 and f64.                           *)

Numeric(o) == o.t \in {"Int", "Float"}
Zero(o) == Numeric(o) /\ o.a = 0

Abs(x) == IF x < 0 THEN -x ELSE x
Sign(x) == IF x < 0 THEN -1 ELSE IF x > 0 THEN 1 ELSE 0

RECURSIVE GCD(_, _)
GCD(a, b) == IF b = 0 THEN a ELSE GCD(b, a % b)

(* The f64 with value n/d, d # 0. *)
Float(n, d) ==
    LET g == GCD(Abs(n), Abs(d)) IN
    FloatObj(Sign(d) * (n \div g), Abs(d) \div g)

(* Rust's / and % on integers: the quotient truncates toward zero, the     *)
(* remainder has the sign of the dividend.                                 *)
TruncDiv(a, b) == Sign(a) * Sign(b) * (Abs(a) \div Abs(b))
Rem(a, b) == a - b * TruncDiv(a, b)

IsaOk(obj) == [r |-> "Ok", kind |-> "None", msg |-> NoMsg, obj |-> obj]
IsaErr(kind, msg) == [r |-> "Err", kind |-> kind, msg |-> msg, obj |-> Noval]

(* The f64 an i64 converts to (`lval.clone() as f64`).                     *)
AsFloat(int) == Float(int.a, 1)

(* lval + rval, lval - rval, lval * rval on f64.                           *)
FAdd(x, y) == Float(x.a * y.b + y.a * x.b, x.b * y.b)
FSub(x, y) == Float(x.a * y.b - y.a * x.b, x.b * y.b)
FMul(x, y) == Float(x.a * y.a, x.b * y.b)

not_applicable(op, left) ==
    IsaErr("TypeError", <<op, get_type(left), get_type(left)>>)

add_int_int(left, right) == IsaOk(IntObj(left.a + right.a))
add_int_float(left, right) == IsaOk(FAdd(AsFloat(left), right))
add_float_int(left, right) == IsaOk(FAdd(left, AsFloat(right)))
add_float_float(left, right) == IsaOk(FAdd(left, right))

add_str_str_reversed(left, right) == IsaOk(StrObj(right.e \o left.e))

(* result = lval.clone(); result.push_str(rval)                            *)
add_str_str(left, right) == IsaOk(StrObj(left.e \o right.e))

add(left, right) ==
    CASE left.t = "Int" /\ right.t = "Int" -> add_int_int(left, right)
      [] left.t = "Int" /\ right.t = "Float" -> add_int_float(left, right)
      [] left.t = "Float" /\ right.t = "Int" -> add_float_int(left, right)
      [] left.t = "Float" /\ right.t = "Float" -> add_float_float(left, right)
      [] left.t = "Str" /\ right.t = "Str" -> add_str_str(left, right)
      [] OTHER -> not_applicable("Add", left)

sub_int_int(left, right) == IsaOk(IntObj(left.a - right.a))
sub_int_float(left, right) == IsaOk(FSub(AsFloat(left), right))
sub_float_int(left, right) == IsaOk(FSub(left, AsFloat(right)))
sub_float_float(left, right) == IsaOk(FSub(left, right))

sub(left, right) ==
    CASE left.t = "Int" /\ right.t = "Int" -> sub_int_int(left, right)
      [] left.t = "Int" /\ right.t = "Float" -> sub_int_float(left, right)
      [] left.t = "Float" /\ right.t = "Int" -> sub_float_int(left, right)
      [] left.t = "Float" /\ right.t = "Float" -> sub_float_float(left, right)
      [] OTHER -> not_applicable("Sub", left)

mul_int_int(left, right) == IsaOk(IntObj(left.a * right.a))

mul_int_float_truncated(left, right) == IsaOk(IntObj(TruncDiv(left.a * right.a, right.b)))

mul_int_float(left, right) == IsaOk(FMul(AsFloat(left), right))
mul_float_int(left, right) == IsaOk(FMul(left, AsFloat(right)))
mul_float_float(left, right) == IsaOk(FMul(left, right))

mul(left, right) ==
    CASE left.t = "Int" /\ right.t = "Int" -> mul_int_int(left, right)
      [] left.t = "Int" /\ right.t = "Float" -> mul_int_float(left, right)
      [] left.t = "Float" /\ right.t = "Int" -> mul_float_int(left, right)
      [] left.t = "Float" /\ right.t = "Float" -> mul_float_float(left, right)
      [] OTHER -> not_applicable("Mul", left)

div_by_zero(left, right) ==
    IsaErr("DivideByZeroError", <<"Divide by zero", describe(left), describe(right)>>)

div_int_int(left, right) ==
    IF right.a = 0 THEN div_by_zero(left, right)
    ELSE IsaOk(IntObj(TruncDiv(left.a, right.a)))

div_int_float(left, right) ==
    IF right.a = 0 THEN div_by_zero(left, right)
    ELSE IsaOk(Float(left.a * right.b, right.a))

div_float_int_unchecked(left, right) ==
    IsaOk(Float(left.a * right.a, left.b))

(* The Float / Int branch computes lval * rval. *)
div_float_int(left, right) ==
    IF right.a = 0 THEN div_by_zero(left, right)
    ELSE IsaOk(Float(left.a * right.a, left.b))

div_float_float(left, right) ==
    IF right.a = 0 THEN div_by_zero(left, right)
    ELSE IsaOk(Float(left.a * right.b, left.b * right.a))

div(left, right) ==
    CASE left.t = "Int" /\ right.t = "Int" -> div_int_int(left, right)
      [] left.t = "Int" /\ right.t = "Float" -> div_int_float(left, right)
      [] left.t = "Float" /\ right.t = "Int" -> div_float_int(left, right)
      [] left.t = "Float" /\ right.t = "Float" -> div_float_float(left, right)
      [] OTHER -> not_applicable("Div", left)

mod_int_int(left, right) ==
    IF right.a = 0 THEN div_by_zero(left, right)
    ELSE IsaOk(IntObj(Rem(left.a, right.a)))

mod_int_float(left, right) ==
    IF right.a = 0 THEN div_by_zero(left, right)
    ELSE IsaOk(Float(Rem(left.a * right.b, right.a), right.b))

(* The Float % Int branch computes lval * rval. *)
mod_float_int(left, right) ==
    IF right.a = 0 THEN div_by_zero(left, right)
    ELSE IsaOk(Float(left.a * right.a, left.b))

mod_float_float(left, right) ==
    IF right.a = 0 THEN div_by_zero(left, right)
    ELSE IsaOk(Float(Rem(left.a * right.b, right.a * left.b), left.b * right.b))

modulus(left, right) ==
    CASE left.t = "Int" /\ right.t = "Int" -> mod_int_int(left, right)
      [] left.t = "Int" /\ right.t = "Float" -> mod_int_float(left, right)
      [] left.t = "Float" /\ right.t = "Int" -> mod_float_int(left, right)
      [] left.t = "Float" /\ right.t = "Float" -> mod_float_float(left, right)
      [] OTHER -> not_applicable("Mod", left)

(* Bitwise (isa/alu.rs).  &, | and ! on i64 in two's complement.           *)
RECURSIVE BitAnd(_, _)
BitAnd(x, y) ==
    IF x = 0 \/ y = 0 THEN 0
    ELSE IF x = -1 THEN y
    ELSE IF y = -1 THEN x
    ELSE (x % 2) * (y % 2) + 2 * BitAnd(x \div 2, y \div 2)

BitNot(x) == -x - 1
BitOr(x, y) == BitNot(BitAnd(BitNot(x), BitNot(y)))

bitwise_not_applicable(op, left, right) ==
    IsaErr("TypeError", <<op, get_type(left), get_type(right)>>)

bitwise_and_on_numbers(left, right) ==
    IF Numeric(left) /\ Numeric(right)
    THEN IsaOk(IntObj(BitAnd(left.a, right.a)))
    ELSE bitwise_not_applicable("And", left, right)

bitwise_and(left, right) ==
    IF left.t = "Int" /\ right.t = "Int"
    THEN IsaOk(IntObj(BitAnd(left.a, right.a)))
    ELSE bitwise_not_applicable("And", left, right)

bitwise_or(left, right) ==
    IF left.t = "Int" /\ right.t = "Int"
    THEN IsaOk(IntObj(BitOr(left.a, right.a)))
    ELSE bitwise_not_applicable("Or", left, right)

bitwise_not(obj) ==
    IF obj.t = "Int"
    THEN IsaOk(IntObj(BitNot(obj.a)))
    ELSE IsaErr("TypeError", <<"Negate", get_type(obj)>>)

(* VMError::new_from_isa_error: the VM error carries the ISA error's kind  *)
(* and message.                                                            *)
new_from_isa_error(isa_err, d) == Err(isa_err.kind, isa_err.msg, d)

get_binary_operands_swapped(d) ==
    LET right_pop == pop_object(d) IN
    IF right_pop.r # "Ok" THEN Fail(right_pop)
    ELSE LET left_pop == pop_object(right_pop.ds) IN
         IF left_pop.r # "Ok" THEN Panic(left_pop.ds)
         ELSE OkObjs(left_pop.ds, <<right_pop.obj, left_pop.obj>>)

(* get_binary_operands tests right_pop after both pops, so a failed left   *)
(* pop reaches left_pop.unwrap().                                          *)
get_binary_operands(d) ==
    LET right_pop == pop_object(d) IN
    IF right_pop.r # "Ok" THEN Fail(right_pop)
    ELSE LET left_pop == pop_object(right_pop.ds) IN
         IF left_pop.r # "Ok" THEN Panic(left_pop.ds)
         ELSE OkObjs(left_pop.ds, <<left_pop.obj, right_pop.obj>>)

(* The kernel execute_binary_op selects for the instruction.  The logical  *)
(* and the comparison kernels are not part of this model.                  *)
binary_op(inst, left, right) ==
    CASE inst = "Add" -> add(left, right)
      [] inst = "Sub" -> sub(left, right)
      [] inst = "Mul" -> mul(left, right)
      [] inst = "Div" -> div(left, right)
      [] inst = "Mod" -> modulus(left, right)
      [] inst = "And" -> bitwise_and(left, right)
      [] inst = "Or" -> bitwise_or(left, right)
      [] OTHER -> IsaErr("InvalidOperation", <<inst>>)

execute_binary_op(inst, d) ==
    LET operands_result == get_binary_operands(d) IN
    IF operands_result.r # "Ok" THEN operands_result
    ELSE LET left == operands_result.objs[1]
             right == operands_result.objs[2]
             res == binary_op(inst, left, right)
         IN IF res.r = "Err"
            THEN [new_from_isa_error(res, operands_result.ds) EXCEPT !.objs = <<left, right>>]
            ELSE [push_object(operands_result.ds, res.obj) EXCEPT !.objs = <<left, right>>]

concurrency_always_enabled(enabled) == FALSE

(* `!ENABLE_CONCURRENCY`, the first test of execute_thread.                *)
concurrency_disabled(enabled) == ~enabled

thread_arity_never_mismatch(closure, n_args) == FALSE

(* `subroutine.num_parameters != n_args` in execute_thread.                *)
thread_arity_mismatch(closure, n_args) == num_parameters(closure) # n_args

(* ExecutionFrame::get_free(idx): the idx-th captured object of the        *)
(* frame's closure, an error when idx is not less than their number.       *)
get_free(frame, idx) ==
    IF idx >= 0 /\ idx < Len(frame.closure.e)
    THEN [r |-> "Ok", kind |-> "None", obj |-> frame.closure.e[idx + 1]]
    ELSE [r |-> "Err", kind |-> "IndexError", obj |-> Noval]

load_free(d, frame, idx) ==
    LET free_obj_result == get_free(frame, idx) IN
    IF free_obj_result.r # "Ok" THEN Err(free_obj_result.kind, NoMsg, d)
    ELSE push_object(d, free_obj_result.obj)

raise_assertion_error(d) ==
    LET popped_result == pop_object(d) IN
    IF popped_result.r # "Ok" THEN Fail(popped_result)
    ELSE LET assert_obj == popped_result.obj IN
         [Err("AssertionError", <<"Assertion Failed:", describe(assert_obj)>>,
              popped_result.ds)
              EXCEPT !.objs = <<assert_obj>>]

(* The kernel execute_unary_op selects for the instruction.                *)
unary_op(inst, obj) ==
    CASE inst = "Neg" -> bitwise_not(obj)
      [] OTHER -> IsaErr("InvalidOperation", <<inst>>)

execute_unary_op(inst, d) ==
    LET pop_result == pop_object(d) IN
    IF pop_result.r # "Ok" THEN Fail(pop_result)
    ELSE LET obj == pop_result.obj
             res == unary_op(inst, obj)
         IN IF res.r = "Err"
            THEN [new_from_isa_error(res, pop_result.ds) EXCEPT !.objs = <<obj>>]
            ELSE [push_object(pop_result.ds, res.obj) EXCEPT !.objs = <<obj>>]

(* LaunchThread / LaunchAndJoin (execute_thread), up to the spawn: the     *)
(* closure and its arguments, in source order.                             *)
thread_args(d, n_args, enabled) ==
    IF concurrency_disabled(enabled)
    THEN Err("IllegalOperation", <<"BosonVM has concurrency disabled.">>, d)
    ELSE LET popped_result == pop_object(d) IN
         IF popped_result.r # "Ok" THEN Fail(popped_result)
         ELSE LET popped_obj == popped_result.obj IN
              IF popped_obj.t # "ClosureContext"
              THEN Err("ThreadCreateError",
                       <<get_type(popped_obj), "cannot be called as a thread.">>,
                       popped_result.ds)
              ELSE IF thread_arity_mismatch(popped_obj, n_args)
              THEN Err("FunctionArgumentsError", NoMsg, popped_result.ds)
              ELSE LET popped_args == pop_n(popped_result.ds, n_args) IN
                   IF popped_args.r # "Ok" THEN Fail(popped_args)
                   ELSE [OkObjs(popped_args.ds, Reverse(popped_args.objs))
                            EXCEPT !.obj = popped_obj]

thread_globals_shared(parent_pool, worker_pool) == parent_pool

(* ThreadParams::new(ctx.clone(), args, global_pool.clone(), ...): the     *)
(* worker is handed a pool of its own, holding a copy of the parent's      *)
(* slots.  Pools are named by the VM that owns them.                       *)
thread_globals(parent_pool, worker_pool) == worker_pool

(* The data stack and call stack of a worker about to run the closure.     *)
sandbox_stack(closure, args) ==
    StackOn(args \o [i \in 1 .. num_locals(closure) - Len(args) |-> Noval])
sandbox_frames(closure) == push_frame(NewCallStack, ExecutionFrame_new(closure, 0)).cs

join_result_without_value(d, worker_status, worker_result, worker_error) ==
    CASE worker_status = "done" -> push_object(d, Noval)
      [] worker_status = "error" -> Err(worker_error.kind, worker_error.msg, d)
      [] OTHER -> Err("ThreadWaitError", NoMsg, d)

(* wait_and_return and what execute_thread does with its outcome: the      *)
(* sandbox result of a worker that ran to its end is the object it         *)
(* returned or the VMError that ended it; the wait itself fails for a      *)
(* worker that crashed.                                                    *)
join_result(d, worker_status, worker_result, worker_error) ==
    CASE worker_status = "done" -> push_object(d, worker_result)
      [] worker_status = "error" -> Err(worker_error.kind, worker_error.msg, d)
      [] OTHER -> Err("ThreadWaitError", NoMsg, d)

-----------------------------------------------------------------------------
(* Arrays, hash tables and iterators.  An Object::Array, ::HashTable or    *)
(* ::Iter is an Rc to a RefCell: the object holds the address of a cell of *)
(* the heap, and every copy of the Rc shares the cell.  A cell holds the   *)
(* elements of an array, the entries <<key, value>> of a hash table, or    *)
(* the source and the cursor of an iterator.  hist is a history field: of  *)
(* a container made by SetIndex, the index, the value and the container    *)
(* it was made from; of an iterator, the elements it has yielded.          *)

Cell(t, elems, src, pos, hist) ==
    [t |-> t, elems |-> elems, src |-> src, pos |-> pos, hist |-> hist]
ArrayCell(elements) == Cell("Array", elements, Noval, 0, <<>>)
HashCell(entries) == Cell("HashTable", entries, Noval, 0, <<>>)
IterCell(source) == Cell("Iter", <<>>, source, 0, <<>>)

IsRef(o) == o.t \in {"Array", "HashTable", "Iter"}

(* Rc::new(object): the next address.                                      *)
rc_new(h) == Len(h) + 1

(* The keys a hash table admits.                                           *)
Hashable(o) == o.t \in {"Int", "Float", "Bool", "Str"}

KeyPos(entries, key) ==
    IF \E k \in 1 .. Len(entries) : entries[k][1] = key
    THEN CHOOSE k \in 1 .. Len(entries) : entries[k][1] = key
    ELSE 0

(* The position an integer index names in a sequence of n elements: a      *)
(* negative index counts from the end; 0 when it is out of range.          *)
ElemPos(n, i) ==
    LET k == IF i < 0 THEN n + i ELSE i IN
    IF k >= 0 /\ k < n THEN k + 1 ELSE 0

(* Object::get_indexed(index): the element, or an error message.           *)
get_indexed(h, obj, index) ==
    CASE obj.t = "Array" ->
             LET elems == h[obj.a].elems
                 k == IF index.t = "Int" THEN ElemPos(Len(elems), index.a) ELSE 0
             IN IF k = 0 THEN [ok |-> FALSE, obj |-> Noval, msg |-> "index error"]
                ELSE [ok |-> TRUE, obj |-> elems[k], msg |-> ""]
      [] obj.t = "Str" ->
             LET k == IF index.t = "Int" THEN ElemPos(Len(obj.e), index.a) ELSE 0
             IN IF k = 0 THEN [ok |-> FALSE, obj |-> Noval, msg |-> "index error"]
                ELSE [ok |-> TRUE, obj |-> StrObj(<<obj.e[k]>>), msg |-> ""]
      [] obj.t = "HashTable" ->
             LET entries == h[obj.a].elems
                 k == IF Hashable(index) THEN KeyPos(entries, index) ELSE 0
             IN IF k = 0 THEN [ok |-> FALSE, obj |-> Noval, msg |-> "index error"]
                ELSE [ok |-> TRUE, obj |-> entries[k][2], msg |-> ""]
      [] OTHER -> [ok |-> FALSE, obj |-> Noval, msg |-> "type error"]

(* HashMap::insert(key, value): the entry of an equal key is replaced.     *)
hash_insert(cell, key, value) ==
    LET k == KeyPos(cell.elems, key) IN
    IF k = 0 THEN [cell EXCEPT !.elems = Append(@, <<key, value>>)]
    ELSE [cell EXCEPT !.elems[k] = <<key, value>>]

(* Object::set_indexed(index, value) on an object the caller owns: the     *)
(* cell after the assignment, or an error message.                         *)
object_set_indexed(t, cell, index, value) ==
    CASE t = "Array" ->
             LET k == IF index.t = "Int" THEN ElemPos(Len(cell.elems), index.a) ELSE 0
             IN IF k = 0 THEN [some_error |-> TRUE, cell |-> cell, msg |-> "index error"]
                ELSE [some_error |-> FALSE, msg |-> "",
                      cell |-> [cell EXCEPT !.elems[k] = value]]
      [] t = "HashTable" ->
             IF ~Hashable(index)
             THEN [some_error |-> TRUE, cell |-> cell, msg |-> "type error"]
             ELSE [some_error |-> FALSE, msg |-> "", cell |-> hash_insert(cell, index, value)]
      [] OTHER -> [some_error |-> TRUE, cell |-> cell, msg |-> "type error"]

(* ObjectIterator::new(source), ::get_pos and ::next.  The order in which  *)
(* a hash table yields its keys is not specified; the programs modelled    *)
(* iterate arrays and strings.                                             *)
Iterable(o) == o.t \in {"Array", "Str"}

iter_source(h, source) == IF source.t = "Array" THEN h[source.a].elems
                          ELSE [k \in 1 .. Len(source.e) |-> StrObj(<<source.e[k]>>)]

iter_get_pos(cell) == cell.pos

iter_next(h, cell) ==
    LET elements == iter_source(h, cell.src) IN
    IF cell.pos < Len(elements)
    THEN [some |-> TRUE, obj |-> elements[cell.pos + 1],
          cell |-> [cell EXCEPT !.pos = @ + 1, !.hist = Append(@, elements[cell.pos + 1])]]
    ELSE [some |-> FALSE, obj |-> Noval, cell |-> cell]

(* Handlers over containers (vm/controls.rs).  Each returns the handler's   *)
(* outcome and the heap it leaves.                                         *)

OnHeap(out, h) == [out |-> out, heap |-> h]

build_array(d, h, length) ==
    LET popped_res == pop_n(d, length) IN
    IF popped_res.r # "Ok" THEN OnHeap(Fail(popped_res), h)
    ELSE LET popped == Reverse(popped_res.objs)
             push_res == push_object(popped_res.ds, ArrayObj(rc_new(h)))
         IN IF push_res.r # "Ok" THEN OnHeap(push_res, h)
            ELSE OnHeap(push_res, Append(h, ArrayCell(popped)))

(* hash_table.insert(key, value) for the pairs of `popped`, in order.      *)
RECURSIVE insert_pairs(_, _)
insert_pairs(cell, popped) ==
    IF Len(popped) = 0 THEN cell
    ELSE insert_pairs(hash_insert(cell, popped[1], popped[2]), SubSeq(popped, 3, Len(popped)))

(* BuildHash: popped[idx] past the end panics when `length` is odd.  What  *)
(* HashMap::insert does with a key that is not hashable is decided by      *)
(* Object's Hash implementation: it panics (`hash_panics`) or the key is   *)
(* inserted; build_hash itself returns no error for it.                    *)
build_hash(d, h, length, hash_panics) ==
    LET popped_res == pop_n(d, length) IN
    IF popped_res.r # "Ok" THEN OnHeap(Fail(popped_res), h)
    ELSE LET popped == Reverse(popped_res.objs)
             keys == {popped[k] : k \in {j \in 1 .. length : j % 2 = 1}}
         IN IF length % 2 = 1 THEN OnHeap(Panic(popped_res.ds), h)
            ELSE IF hash_panics /\ \E key \in keys : ~Hashable(key)
            THEN OnHeap(Panic(popped_res.ds), h)
            ELSE LET push_res == push_object(popped_res.ds, HashObj(rc_new(h)))
                 IN IF push_res.r # "Ok" THEN OnHeap(push_res, h)
                    ELSE OnHeap(push_res, Append(h, insert_pairs(HashCell(<<>>), popped)))

get_index_operands_swapped(first, second) == [index |-> second, left |-> first]

(* The roles get_index_value gives the two objects it pops: the first (the *)
(* top of the stack) is the index, the second the container.               *)
get_index_operands(first, second) == [index |-> first, left |-> second]

(* get_index_value tests popped_idx_result after both pops, so a failed    *)
(* second pop reaches popped_left_result.unwrap().                         *)
get_index_value(d, h) ==
    LET popped_idx_result == pop_object(d) IN
    IF popped_idx_result.r # "Ok" THEN Fail(popped_idx_result)
    ELSE LET popped_left_result == pop_object(popped_idx_result.ds) IN
         IF popped_left_result.r # "Ok" THEN Panic(popped_left_result.ds)
         ELSE LET ops == get_index_operands(popped_idx_result.obj, popped_left_result.obj)
                  index_obj == ops.index
                  left_obj == ops.left
                  index_result == get_indexed(h, left_obj, index_obj)
              IN IF ~index_result.ok
                 THEN Err("IndexError", <<index_result.msg>>, popped_left_result.ds)
                 ELSE push_object(popped_left_result.ds, index_result.obj)

set_indexed_operands_swapped(popped_objects) ==
    [index |-> popped_objects[3], target |-> popped_objects[2], value |-> popped_objects[1]]

(* The roles set_indexed gives the three objects pop_n returned, the top   *)
(* of the stack first: get(0) the index, get(1) the container, get(2) the  *)
(* value.                                                                  *)
set_indexed_operands(popped_objects) ==
    [index |-> popped_objects[1], target |-> popped_objects[2], value |-> popped_objects[3]]

set_indexed_in_place(target_addr, next_addr) == target_addr

(* The cell the assignment writes: obj_target.as_ref().clone() makes a     *)
(* copy of the container, and Rc::new(new_object) gives it a new address.  *)
set_indexed_cell(target_addr, next_addr) == next_addr

set_indexed(d, h) ==
    LET pop_result == pop_n(d, 3) IN
    IF pop_result.r # "Ok" THEN OnHeap(Fail(pop_result), h)
    ELSE LET popped_objects == pop_result.objs
             ops == set_indexed_operands(popped_objects)
             new_object == IF IsRef(ops.target) THEN h[ops.target.a] ELSE ArrayCell(<<>>)
             set == object_set_indexed(ops.target.t, new_object, ops.index, ops.value)
         IN IF set.some_error
            THEN OnHeap(Err("IndexError", <<set.msg>>, pop_result.ds), h)
            ELSE LET addr == set_indexed_cell(ops.target.a, rc_new(h))
                     cell == [set.cell EXCEPT
                                 !.hist = <<popped_objects[1], popped_objects[3],
                                            popped_objects[2]>>]
                     push_result == push_object(pop_result.ds, [ops.target EXCEPT !.a = addr])
                 IN IF push_result.r # "Ok" THEN OnHeap(push_result, h)
                    ELSE OnHeap([push_result EXCEPT !.objs = popped_objects],
                                IF addr = rc_new(h) THEN Append(h, cell)
                                ELSE [h EXCEPT ![addr] = cell])

create_iter(d, h) ==
    LET popped_res == pop_object(d) IN
    IF popped_res.r # "Ok" THEN OnHeap(Fail(popped_res), h)
    ELSE LET popped_object == popped_res.obj IN
         IF ~Iterable(popped_object)
         THEN OnHeap(Err("IterationError", NoMsg, popped_res.ds), h)
         ELSE LET push_res == push_object(popped_res.ds, IterObj(rc_new(h)))
              IN IF push_res.r # "Ok" THEN OnHeap(push_res, h)
                 ELSE OnHeap(push_res, Append(h, IterCell(popped_object)))

(* ExecutionFrame::set_ip(pos): a position past the end of the code range  *)
(* fails with an illegal-jump error.                                       *)
frame_set_ip(frame, pos, code_end) ==
    IF pos < 0 \/ pos > code_end
    THEN [some_error |-> TRUE, frame |-> frame]
    ELSE [some_error |-> FALSE, frame |-> [frame EXCEPT !.ip = pos]]

jump(frame, pos, code_end) ==
    LET error_res == frame_set_ip(frame, pos, code_end) IN
    [ok |-> ~error_res.some_error, frame |-> error_res.frame]

IterOut(out, h, frame, jumped) == [out |-> out, heap |-> h, frame |-> frame, jumped |-> jumped]

(* Object::is_true: non-zero numbers, non-empty strings, arrays and hash   *)
(* tables, and true are truthy.                                            *)
is_true(h, o) ==
    CASE o.t \in {"Int", "Float"} -> o.a # 0
      [] o.t = "Str" -> o.e # <<>>
      [] o.t = "Bool" -> o.a = 1
      [] o.t \in {"Array", "HashTable"} -> h[o.a].elems # <<>>
      [] OTHER -> FALSE

not_jump_taken_when_truthy(truthy) == truthy

(* `if !popped_obj.as_ref().is_true()`                                     *)
not_jump_taken(truthy) == ~truthy

jump_not_truthy(cf, d, h, pos, code_end) ==
    LET popped_res == pop_object(d) IN
    IF popped_res.r # "Ok" THEN IterOut(Fail(popped_res), h, cf, FALSE)
    ELSE LET popped_obj == popped_res.obj IN
         IF not_jump_taken(is_true(h, popped_obj))
         THEN LET jmp_result == jump(cf, pos, code_end) IN
              IF ~jmp_result.ok
              THEN IterOut([Err("IllegalJump", NoMsg, popped_res.ds)
                                EXCEPT !.objs = <<popped_obj>>], h, cf, FALSE)
              ELSE IterOut(OkObjs(popped_res.ds, <<popped_obj>>), h, jmp_result.frame, TRUE)
         ELSE IterOut(OkObjs(popped_res.ds, <<popped_obj>>), h, cf, FALSE)

enumerated_pos_after(pos_before, pos_after) == pos_after

(* current_pos = iterator.get_pos(), read before iterator.next().          *)
enumerated_pos(pos_before, pos_after) == pos_before

iter_never_exhausted(obj) == FALSE

(* `obj.is_none()`: the iterator has no next element.                      *)
iter_exhausted(obj) == ~obj.some

(* IterNext p: the outcome, the heap, the frame and whether it jumped.     *)
jump_next_iter(d, h, jmp_pos, frame, enumerate, code_end) ==
    LET top_ref_res == get_top_ref(d) IN
    IF top_ref_res.r # "Ok" THEN IterOut(Fail(top_ref_res), h, frame, FALSE)
    ELSE LET top_ref == top_ref_res.obj IN
         IF top_ref.t # "Iter"
         THEN IterOut(Err("IterationError", <<"Cannot iterate over", get_type(top_ref)>>, d),
                      h, frame, FALSE)
         ELSE LET iterator == h[top_ref.a]
                  obj == iter_next(h, iterator)
                  current_pos == IF enumerate
                                 THEN enumerated_pos(iter_get_pos(iterator),
                                                     iter_get_pos(obj.cell))
                                 ELSE 0
                  h1 == [h EXCEPT ![top_ref.a] = obj.cell]
              IN IF iter_exhausted(obj)
                 THEN LET popped_result == pop_object(d)
                          result_jump == jump(frame, jmp_pos, code_end)
                      IN IF popped_result.r # "Ok"
                         THEN IterOut(Fail(popped_result), h1, frame, FALSE)
                         ELSE IF ~result_jump.ok
                         THEN IterOut(Err("IllegalJump", NoMsg, popped_result.ds),
                                      h1, frame, FALSE)
                         ELSE IterOut(Ok(popped_result.ds), h1, result_jump.frame, TRUE)
                 ELSE LET push_res == push_object(d, obj.obj) IN
                      IF push_res.r # "Ok" THEN IterOut(push_res, h1, frame, FALSE)
                      ELSE IF enumerate
                      THEN IterOut(push_object(push_res.ds, IntObj(current_pos)),
                                   h1, frame, FALSE)
                      ELSE IterOut(push_res, h1, frame, FALSE)

-----------------------------------------------------------------------------
(* The dispatch loop: one action per instruction.  Each executes the whole *)
(* handler on the VM's stacks and ends the VM on an error or a panic.      *)

Min(a, b) == IF a < b THEN a ELSE b

Running(vm) == status[vm] = "running"
TopFrame(vm) == cs[vm].stack[Len(cs[vm].stack)]
NoError == [kind |-> "None", msg |-> NoMsg]

StatusAfter(vm, r) ==
    [status EXCEPT ![vm] = IF r = "Ok" THEN @ ELSE IF r = "Err" THEN "error" ELSE "panic"]

ErrorAfter(vm, r, kind, msg) ==
    [error EXCEPT ![vm] = IF r = "Err" THEN [kind |-> kind, msg |-> msg] ELSE @]

(* The record of the step: the VM, the instruction, its outcome, and the   *)
(* operand of a Call, LaunchThread (the argument count), LoadGlobal (the   *)
(* slot) or Join (the worker).                                             *)
Last(vm, inst, n, r) == [vm |-> vm, inst |-> inst, n |-> n, r |-> r, objs |-> <<>>]
LastOn(vm, inst, n, r, objs) == [Last(vm, inst, n, r) EXCEPT !.objs = objs]
NoLast == Last(MainVM, "None", 0, "Ok")

(* Bytecode the compiler produced keeps an operand discipline: an          *)
(* instruction finds the operands it consumes among those the running      *)
(* frame's own code has pushed (`need` of them), and local slots are       *)
(* addressed within the function's num_locals (`fits`).  depth counts the  *)
(* frame's operands, up to the stack's capacity.                           *)
Disciplined(vm, need, fits) ==
    compiled[vm] => (fits /\ TopFrame(vm).depth >= need)

AddDepth(vm, c, delta) ==
    IF Len(c.stack) = 0 \/ ~compiled[vm] THEN c
    ELSE [c EXCEPT !.stack[Len(c.stack)].depth = Min(@ + delta, DATA_STACK_SIZE)]

(* An instruction that neither creates nor leaves a frame.  `delta` is its *)
(* net effect on the operand count.                                        *)
Simple(vm, inst, n, out, delta) ==
    /\ ds' = [ds EXCEPT ![vm] = out.ds]
    /\ cs' = [cs EXCEPT ![vm] = IF out.r = "Ok" THEN AddDepth(vm, @, delta) ELSE @]
    /\ status' = StatusAfter(vm, out.r)
    /\ error' = ErrorAfter(vm, out.r, out.kind, out.msg)
    /\ last' = LastOn(vm, inst, n, out.r, out.objs)

Constant(vm, k) ==
    /\ Running(vm)
    /\ Disciplined(vm, 0, k < Len(ConstantPool))
    /\ Simple(vm, "Constant", 0, load_constant(ds[vm], k), 1)
    /\ UNCHANGED <<result, pools, gp, compiled, snap, wrote, joining, concurrency, heap>>

LoadBuiltIn(vm, idx) ==
    /\ Running(vm)
    /\ Disciplined(vm, 0, TRUE)
    /\ Simple(vm, "LoadBuiltIn", idx, load_builtin(ds[vm], idx), 1)
    /\ UNCHANGED <<result, pools, gp, compiled, snap, wrote, joining, concurrency, heap>>

Closure(vm, f, n_free) ==
    /\ Running(vm)
    /\ Disciplined(vm, n_free, TRUE)
    /\ Simple(vm, "Closure", 0, create_closure(ds[vm], n_free, f), 1 - n_free)
    /\ UNCHANGED <<result, pools, gp, compiled, snap, wrote, joining, concurrency, heap>>

LoadGlobal(vm, k) ==
    /\ Running(vm)
    /\ Disciplined(vm, 0, TRUE)
    /\ Simple(vm, "LoadGlobal", k, load_global(pools[gp[vm]], ds[vm], k), 1)
    /\ UNCHANGED <<result, pools, gp, compiled, snap, wrote, joining, concurrency, heap>>

StoreGlobal(vm, k) ==
    /\ Running(vm)
    /\ Disciplined(vm, 1, TRUE)
    /\ LET res == store_global(pools[gp[vm]], ds[vm], k) IN
       /\ Simple(vm, "StoreGlobal", 0, res.out, -1)
       /\ pools' = [pools EXCEPT ![gp[vm]] = res.pool]
       /\ wrote' = [wrote EXCEPT ![vm] = IF res.out.r = "Ok" THEN @ \cup {k} ELSE @]
    /\ UNCHANGED <<result, gp, compiled, snap, joining, concurrency, heap>>

LoadLocal(vm, k) ==
    /\ Running(vm)
    /\ Disciplined(vm, 0, k < num_locals(TopFrame(vm).closure))
    /\ Simple(vm, "LoadLocal", 0, load_local(ds[vm], k, TopFrame(vm)), 1)
    /\ UNCHANGED <<result, pools, gp, compiled, snap, wrote, joining, concurrency, heap>>

StoreLocal(vm, k) ==
    /\ Running(vm)
    /\ Disciplined(vm, 1, k < num_locals(TopFrame(vm).closure))
    /\ Simple(vm, "StoreLocal", 0, store_local(ds[vm], k, TopFrame(vm)), -1)
    /\ UNCHANGED <<result, pools, gp, compiled, snap, wrote, joining, concurrency, heap>>

(* Call n: execute_call, then the dispatch loop pushes the frame the       *)
(* handler yields.                                                         *)
Call(vm, n, checked, fails) ==
    /\ Running(vm)
    /\ Disciplined(vm, n + 1, TRUE)
    /\ LET out == execute_call(ds[vm], n, checked, fails)
           frame == [out.frame EXCEPT
                        !.h = IF compiled[vm] THEN Len(ds[vm].stack) - 1 - n ELSE 0]
           caller == AddDepth(vm, cs[vm], IF out.some_frame THEN 0 - (n + 1) ELSE 0 - n)
           pushed == IF out.r = "Ok" /\ out.some_frame
                     THEN push_frame(caller, frame)
                     ELSE [r |-> out.r, kind |-> out.kind,
                           cs |-> IF out.r = "Ok" THEN caller ELSE cs[vm]]
       IN /\ ds' = [ds EXCEPT ![vm] = out.ds]
          /\ cs' = [cs EXCEPT ![vm] = pushed.cs]
          /\ status' = StatusAfter(vm, pushed.r)
          /\ error' = ErrorAfter(vm, pushed.r, pushed.kind, out.msg)
          /\ last' = LastOn(vm, "Call", n, pushed.r, out.objs)
    /\ UNCHANGED <<result, pools, gp, compiled, snap, wrote, joining, concurrency, heap>>

(* Ret / RetVal: execute_return, then the dispatch loop pops the frame; the *)
(* VM is done when the entry frame returns.                                *)
Return(vm, has_val) ==
    /\ Running(vm)
    /\ Disciplined(vm, IF has_val THEN 1 ELSE 0, TRUE)
    /\ LET frame == TopFrame(vm)
           out == execute_return(ds[vm], frame, has_val)
           popped == IF out.r = "Ok" THEN pop_frame(cs[vm])
                     ELSE [r |-> out.r, kind |-> out.kind, cs |-> cs[vm]]
           finished == popped.r = "Ok" /\ Len(popped.cs.stack) = 0
       IN /\ ds' = [ds EXCEPT ![vm] = out.ds]
          /\ cs' = [cs EXCEPT ![vm] =
                        IF popped.r = "Ok" THEN AddDepth(vm, popped.cs, 1) ELSE @]
          /\ status' = [status EXCEPT ![vm] =
                            IF finished THEN "done"
                            ELSE IF popped.r = "Ok" THEN @
                            ELSE IF popped.r = "Err" THEN "error" ELSE "panic"]
          /\ error' = ErrorAfter(vm, popped.r, popped.kind, out.msg)
          /\ result' = [result EXCEPT ![vm] = IF finished THEN out.obj ELSE @]
          /\ last' = Last(vm, IF has_val THEN "RetVal" ELSE "Ret", 0, popped.r)
    /\ UNCHANGED <<pools, gp, compiled, snap, wrote, joining, concurrency, heap>>

(* Add, Sub, ..., Div, Mod: one handler for every binary instruction.      *)
BinaryOp(vm, inst) ==
    /\ Running(vm)
    /\ Disciplined(vm, 2, TRUE)
    /\ LET out == execute_binary_op(inst, ds[vm]) IN
       /\ Simple(vm, inst, 0, out, -1)
    /\ UNCHANGED <<result, pools, gp, compiled, snap, wrote, joining, concurrency, heap>>

(* Neg: the handler of the unary instructions.                             *)
UnaryOp(vm, inst) ==
    /\ Running(vm)
    /\ Disciplined(vm, 1, TRUE)
    /\ LET out == execute_unary_op(inst, ds[vm]) IN
       /\ Simple(vm, inst, 0, out, 0)
    /\ UNCHANGED <<result, pools, gp, compiled, snap, wrote, joining, concurrency, heap>>

(* LoadFree k.                                                             *)
LoadFree(vm, k) ==
    /\ Running(vm)
    /\ Disciplined(vm, 0, TRUE)
    /\ Simple(vm, "LoadFree", k, load_free(ds[vm], TopFrame(vm), k), 1)
    /\ UNCHANGED <<result, pools, gp, compiled, snap, wrote, joining, concurrency, heap>>

(* AssertFail.                                                             *)
AssertFail(vm) ==
    /\ Running(vm)
    /\ Simple(vm, "AssertFail", 0, raise_assertion_error(ds[vm]), 0)
    /\ UNCHANGED <<result, pools, gp, compiled, snap, wrote, joining, concurrency, heap>>

IdleWorkers == {w \in Workers : status[w] = "idle"}
FirstIdle == CHOOSE w \in IdleWorkers : \A x \in IdleWorkers : w <= x
InstThread(join) == IF join THEN "LaunchAndJoin" ELSE "LaunchThread"

launch_outcome_without_handle(d, th, join) == Ok(d)

(* What execute_thread does once the worker th is created: without join it *)
(* pushes a thread handle for th; with join it goes on to wait.            *)
launch_outcome(d, th, join) ==
    IF join THEN Ok(d) ELSE push_object(d, ThreadObj(th))

(* LaunchThread n / LaunchAndJoin n.  The registry runs the closure on an  *)
(* idle worker and fails when none is left.  LaunchAndJoin then blocks in  *)
(* wait_and_return until JoinComplete.                                     *)
LaunchThread(vm, n, join) ==
    /\ Running(vm)
    /\ Disciplined(vm, n + 1, TRUE)
    /\ LET pre == thread_args(ds[vm], n, concurrency)
           spawned == pre.r = "Ok" /\ IdleWorkers # {}
           w == FirstIdle
           out == IF pre.r # "Ok" THEN pre
                  ELSE IF ~spawned THEN Err("ThreadCreateError", NoMsg, pre.ds)
                  ELSE launch_outcome(pre.ds, w, join)
       IN /\ ds' = [x \in VMs |->
                       IF x = vm THEN out.ds
                       ELSE IF spawned /\ x = w THEN sandbox_stack(pre.obj, pre.objs)
                       ELSE ds[x]]
          /\ cs' = [x \in VMs |->
                       IF x = vm THEN (IF out.r = "Ok" THEN AddDepth(vm, cs[x], -n) ELSE cs[x])
                       ELSE IF spawned /\ x = w THEN sandbox_frames(pre.obj)
                       ELSE cs[x]]
          /\ status' = [x \in VMs |->
                           IF x = vm
                           THEN (IF out.r = "Err" THEN "error"
                                 ELSE IF out.r = "Panic" THEN "panic"
                                 ELSE IF join THEN "waiting" ELSE status[x])
                           ELSE IF spawned /\ x = w THEN "running"
                           ELSE status[x]]
          /\ error' = ErrorAfter(vm, out.r, out.kind, out.msg)
          /\ gp' = IF spawned THEN [gp EXCEPT ![w] = thread_globals(gp[vm], w)] ELSE gp
          /\ pools' = IF spawned THEN [pools EXCEPT ![w] = pools[gp[vm]]] ELSE pools
          /\ snap' = IF spawned THEN [snap EXCEPT ![w] = pools[gp[vm]]] ELSE snap
          /\ joining' = IF spawned /\ join /\ out.r = "Ok"
                        THEN [joining EXCEPT ![vm] = w] ELSE joining
          /\ last' = Last(vm, InstThread(join), n, out.r)
    /\ UNCHANGED <<result, compiled, wrote, concurrency, heap>>

(* BosonThreads::wait_and_return(th) blocks the caller until the worker    *)
(* has ended.                                                              *)
wait_returns(worker_status) == worker_status \in {"done", "error", "panic"}

(* The worker a LaunchAndJoin waits for has ended. *)
JoinComplete(vm) ==
    /\ status[vm] = "waiting"
    /\ wait_returns(status[joining[vm]])
    /\ LET w == joining[vm]
           out == join_result(ds[vm], status[w], result[w], error[w])
       IN /\ ds' = [ds EXCEPT ![vm] = out.ds]
          /\ cs' = [cs EXCEPT ![vm] = IF out.r = "Ok" THEN AddDepth(vm, @, 1) ELSE @]
          /\ status' = [status EXCEPT ![vm] = IF out.r = "Ok" THEN "running" ELSE "error"]
          /\ error' = ErrorAfter(vm, out.r, out.kind, out.msg)
          /\ joining' = [joining EXCEPT ![vm] = 0]
          /\ last' = Last(vm, "Join", w, out.r)
    /\ UNCHANGED <<result, pools, gp, compiled, snap, wrote, concurrency, heap>>

(* BuildArray n, BuildHash n, GetIndex, SetIndex.                          *)
OnContainers(vm, inst, n, res, delta) ==
    /\ Running(vm)
    /\ Simple(vm, inst, n, res.out, delta)
    /\ heap' = res.heap
    /\ UNCHANGED <<result, pools, gp, compiled, snap, wrote, joining, concurrency>>

BuildArray(vm, n) == OnContainers(vm, "BuildArray", n, build_array(ds[vm], heap, n), 1 - n)

BuildHash(vm, n, hash_panics) ==
    OnContainers(vm, "BuildHash", n, build_hash(ds[vm], heap, n, hash_panics), 1 - n)

GetIndex(vm) == OnContainers(vm, "GetIndex", 0, OnHeap(get_index_value(ds[vm], heap), heap), -1)

SetIndex(vm) == OnContainers(vm, "SetIndex", 0, set_indexed(ds[vm], heap), -2)

(* A program in the running frame's code range: the dispatch loop fetches  *)
(* the instruction at ip, moves ip past it and runs its handler.           *)
(* Positions count instructions.  LoopProgram is `for x in s { }` with x a *)
(* global: Iter, then IterNext to the exit, the store of the element, and  *)
(* the jump back.                                                          *)
Inst(op, arg) == [op |-> op, arg |-> arg]
LoopHead == 1
LoopBody == 2
LoopExit == 4
LoopProgram ==
    <<Inst("Iter", 0), Inst("IterNext", LoopExit), Inst("StoreGlobal", 0),
      Inst("Jump", LoopHead)>>

Fetched(vm) == LoopProgram[TopFrame(vm).ip + 1]
Fetch(vm, op) ==
    /\ Running(vm)
    /\ TopFrame(vm).ip < Len(LoopProgram)
    /\ Fetched(vm).op = op
Advanced(frame) == [frame EXCEPT !.ip = @ + 1]
WithTopFrame(c, frame) == [c EXCEPT !.stack[Len(c.stack)] = frame]

Dispatched(vm, inst, n, out, frame, h) ==
    /\ ds' = [ds EXCEPT ![vm] = out.ds]
    /\ cs' = [cs EXCEPT ![vm] = WithTopFrame(@, frame)]
    /\ status' = StatusAfter(vm, out.r)
    /\ error' = ErrorAfter(vm, out.r, out.kind, out.msg)
    /\ last' = LastOn(vm, inst, n, out.r, out.objs)
    /\ heap' = h

Iter(vm) ==
    /\ Fetch(vm, "Iter")
    /\ LET res == create_iter(ds[vm], heap) IN
       Dispatched(vm, "Iter", 0, res.out, Advanced(TopFrame(vm)), res.heap)
    /\ UNCHANGED <<result, pools, gp, compiled, snap, wrote, joining, concurrency>>

IterNext(vm) ==
    /\ Fetch(vm, "IterNext")
    /\ LET res == jump_next_iter(ds[vm], heap, Fetched(vm).arg, Advanced(TopFrame(vm)),
                                 FALSE, Len(LoopProgram))
       IN Dispatched(vm, "IterNext", Fetched(vm).arg, res.out, res.frame, res.heap)
    /\ UNCHANGED <<result, pools, gp, compiled, snap, wrote, joining, concurrency>>

StoreElement(vm) ==
    /\ Fetch(vm, "StoreGlobal")
    /\ LET res == store_global(pools[gp[vm]], ds[vm], Fetched(vm).arg) IN
       /\ Dispatched(vm, "StoreGlobal", 0, res.out, Advanced(TopFrame(vm)), heap)
       /\ pools' = [pools EXCEPT ![gp[vm]] = res.pool]
    /\ UNCHANGED <<result, gp, compiled, snap, wrote, joining, concurrency>>

Jump(vm) ==
    /\ Fetch(vm, "Jump")
    /\ LET res == jump(Advanced(TopFrame(vm)), Fetched(vm).arg, Len(LoopProgram))
           out == IF res.ok THEN Ok(ds[vm]) ELSE Err("IllegalJump", NoMsg, ds[vm])
       IN Dispatched(vm, "Jump", Fetched(vm).arg, out, res.frame, heap)
    /\ UNCHANGED <<result, pools, gp, compiled, snap, wrote, joining, concurrency>>

(* IterNext p and its enumerating variant, and NotJump p, on the frame as  *)
(* the dispatch loop hands it to the handler.                              *)
InstIterNext(enumerate) == IF enumerate THEN "EnumNext" ELSE "IterNext"

IterNextTo(vm, p, enumerate, code_end) ==
    /\ Running(vm)
    /\ LET res == jump_next_iter(ds[vm], heap, p, TopFrame(vm), enumerate, code_end) IN
       Dispatched(vm, InstIterNext(enumerate), p, res.out, res.frame, res.heap)
    /\ UNCHANGED <<result, pools, gp, compiled, snap, wrote, joining, concurrency>>

NotJump(vm, p, code_end) ==
    /\ Running(vm)
    /\ LET res == jump_not_truthy(TopFrame(vm), ds[vm], heap, p, code_end) IN
       Dispatched(vm, "NotJump", p, res.out, res.frame, res.heap)
    /\ UNCHANGED <<result, pools, gp, compiled, snap, wrote, joining, concurrency>>

(* ip has reached the end of the entry routine: the VM is done.            *)
EndOfProgram(vm) ==
    /\ Running(vm)
    /\ TopFrame(vm).ip = Len(LoopProgram)
    /\ status' = [status EXCEPT ![vm] = "done"]
    /\ last' = Last(vm, "End", 0, "Ok")
    /\ UNCHANGED <<ds, cs, error, result, pools, gp, compiled, snap, wrote, joining,
                   concurrency, heap>>

-----------------------------------------------------------------------------
(* The VM after construction: empty data stack, the entry frame pushed,    *)
(* every global slot holding the no-value sentinel.                        *)

EntryFrame == ExecutionFrame_new(ClosureObj(0, <<>>), 0)

InitWith(byCompiler, builds) ==
    /\ ds = [vm \in VMs |-> NewDataStack]
    /\ cs = [vm \in VMs |->
                IF vm = MainVM THEN push_frame(NewCallStack, EntryFrame).cs ELSE NewCallStack]
    /\ status = [vm \in VMs |-> IF vm = MainVM THEN "running" ELSE "idle"]
    /\ error = [vm \in VMs |-> NoError]
    /\ result = [vm \in VMs |-> Noval]
    /\ pools = [p \in VMs |-> NewGlobalPool]
    /\ gp = [vm \in VMs |-> vm]
    /\ last = NoLast
    /\ compiled = [vm \in VMs |-> byCompiler]
    /\ snap = [vm \in VMs |-> NewGlobalPool]
    /\ wrote = [vm \in VMs |-> {}]
    /\ joining = [vm \in VMs |-> 0]
    /\ concurrency \in builds
    /\ steps = 0
    /\ heap = <<>>

(* ENABLE_CONCURRENCY is fixed by the build. *)
InitVM(byCompiler) == InitWith(byCompiler, {TRUE})

(* Positions of the constant pool that hold the value / the functions the  *)
(* programs of calls load, and those that hold the indices, keys and       *)
(* values the programs over containers load.                               *)
ValueConstants == {k \in 0 .. Len(ConstantPool) - 1 : ConstantPool[k + 1] = IntObj(1)}
IndexValues == {IntObj(-1), IntObj(0), IntObj(3), StrObj(<<1>>)}
IndexConstants == {k \in 0 .. Len(ConstantPool) - 1 : ConstantPool[k + 1] \in IndexValues}
FnConstants == {k \in 0 .. Len(ConstantPool) - 1 : ConstantPool[k + 1].t = "Subroutine"}

(* A step of a program of at most max instructions, over all VMs (Tick),  *)
(* or of a program of any length (Untimed).                                *)
Untimed == UNCHANGED steps
Tick(max) == steps < max /\ steps' = steps + 1

(* The functions without parameters. *)
PlainFnConstants == {k \in FnConstants : CompiledFns[ConstantPool[k + 1].a].num_parameters = 0}

Next ==
    \/ \E k \in ValueConstants : Constant(MainVM, k) /\ Untimed
    \/ \E f \in PlainFnConstants : Closure(MainVM, f, 0) /\ Untimed
    \/ \E k \in 0 .. GLOBAL_POOL_SIZE : LoadGlobal(MainVM, k) /\ Untimed
    \/ \E k \in 0 .. GLOBAL_POOL_SIZE : StoreGlobal(MainVM, k) /\ Untimed
    \/ \E k \in 0 .. MaxArgs : LoadLocal(MainVM, k) /\ Untimed
    \/ \E k \in 0 .. MaxArgs : StoreLocal(MainVM, k) /\ Untimed
    \/ \E n \in 0 .. MaxArgs, checked \in BOOLEAN :
           Call(MainVM, n, checked, FALSE) /\ Untimed
    \/ \E has_val \in BOOLEAN : Return(MainVM, has_val) /\ Untimed

NextCompiled ==
    \/ \E k \in ValueConstants : Constant(MainVM, k) /\ Tick(MaxProgram)
    \/ \E f \in FnConstants : Closure(MainVM, f, 0) /\ Tick(MaxProgram)
    \/ \E k \in 0 .. GLOBAL_POOL_SIZE : LoadGlobal(MainVM, k) /\ Tick(MaxProgram)
    \/ \E k \in 0 .. GLOBAL_POOL_SIZE : StoreGlobal(MainVM, k) /\ Tick(MaxProgram)
    \/ \E k \in 0 .. MaxArgs : LoadLocal(MainVM, k) /\ Tick(MaxProgram)
    \/ \E k \in 0 .. MaxArgs : StoreLocal(MainVM, k) /\ Tick(MaxProgram)
    \/ \E n \in 0 .. MaxArgs, checked \in BOOLEAN :
           Call(MainVM, n, checked, FALSE) /\ Tick(MaxProgram)
    \/ \E has_val \in BOOLEAN : Return(MainVM, has_val) /\ Tick(MaxProgram)

(* Spec: the VM on any bytecode, of any length, whose closures take no    *)
(* parameters.  SpecCompiled: the VM on bytecode of at most MaxProgram     *)
(* instructions that keeps the compiler's operand discipline.              *)
Init == InitVM(FALSE)
Spec == Init /\ [][Next]_vars

InitCompiled == InitVM(TRUE)
SpecCompiled == InitCompiled /\ [][NextCompiled]_vars

(* SpecAlu: the VM about to execute a binary instruction on operands of   *)
(* every kind, and on a stack that misses one or both of them.             *)
Operands ==
    {IntObj(0), IntObj(2), IntObj(-3), Float(0, 1), Float(1, 2), Float(-3, 2),
     StrObj(<<1>>), StrObj(<<2>>), Noval}

OperandStacks ==
    {<<>>} \cup {<<x>> : x \in Operands} \cup {<<x, y>> : x \in Operands, y \in Operands}

InitAlu ==
    /\ \E operands \in OperandStacks :
           ds = [vm \in VMs |-> IF vm = MainVM THEN StackOn(operands) ELSE NewDataStack]
    /\ cs = [vm \in VMs |->
                IF vm = MainVM THEN push_frame(NewCallStack, EntryFrame).cs ELSE NewCallStack]
    /\ status = [vm \in VMs |-> IF vm = MainVM THEN "running" ELSE "idle"]
    /\ error = [vm \in VMs |-> NoError]
    /\ result = [vm \in VMs |-> Noval]
    /\ pools = [p \in VMs |-> NewGlobalPool]
    /\ gp = [vm \in VMs |-> vm]
    /\ last = NoLast
    /\ compiled = [vm \in VMs |-> FALSE]
    /\ snap = [vm \in VMs |-> NewGlobalPool]
    /\ wrote = [vm \in VMs |-> {}]
    /\ joining = [vm \in VMs |-> 0]
    /\ concurrency = TRUE
    /\ steps = 0
    /\ heap = <<>>

ArithmeticOps == {"Add", "Sub", "Mul", "Div", "Mod"}
BitwiseOps == {"And", "Or"}

NextAlu ==
    \/ BinaryOp(MainVM, "Div") /\ Untimed
    \/ BinaryOp(MainVM, "Mod") /\ Untimed
    \/ \E inst \in {"Add", "Sub", "Mul"} : BinaryOp(MainVM, inst) /\ Untimed
    \/ \E inst \in BitwiseOps : BinaryOp(MainVM, inst) /\ Untimed
    \/ UnaryOp(MainVM, "Neg") /\ Untimed

SpecAlu == InitAlu /\ [][NextAlu]_vars

(* SpecThread: the main VM spawning workers, and the workers, stepping in *)
(* any order, for MaxSteps instructions in all.  The main VM builds        *)
(* closures, launches them and stores what is on its stack (closures,      *)
(* thread handles, joined results) to globals; the workers push constants, *)
(* load and store globals and return.                                      *)
GlobalSlots == 0 .. GLOBAL_POOL_SIZE - 1

NextThread ==
    \/ \E w \in Workers, k \in ValueConstants : Constant(w, k) /\ Tick(MaxSteps)
    \/ \E f \in FnConstants : Closure(MainVM, f, 0) /\ Tick(MaxSteps)
    \/ \E w \in Workers, k \in GlobalSlots : LoadGlobal(w, k) /\ Tick(MaxSteps)
    \/ \E vm \in VMs, k \in GlobalSlots : StoreGlobal(vm, k) /\ Tick(MaxSteps)
    \/ \E n \in 0 .. MaxArgs, join \in BOOLEAN : LaunchThread(MainVM, n, join) /\ Tick(MaxSteps)
    \/ JoinComplete(MainVM) /\ Tick(MaxSteps)
    \/ \E w \in Workers, has_val \in BOOLEAN : Return(w, has_val) /\ Tick(MaxSteps)

InitThread == InitWith(FALSE, BOOLEAN)
SpecThread == InitThread /\ [][NextThread]_vars

(* The VM about to execute an instruction on a data stack, containers and  *)
(* globals that earlier instructions built, in a build with or without     *)
(* concurrency.                                                            *)
SeqsUpTo(S, n) == UNION {[1 .. k -> S] : k \in 0 .. n}

GlobalPoolOn(obj) == [i \in 1 .. GLOBAL_POOL_SIZE |-> IF i = 1 THEN obj ELSE Noval]

InitOnHeap(inputs, builds) ==
    /\ \E input \in inputs :
           /\ ds = [vm \in VMs |-> IF vm = MainVM THEN StackOn(input.stack) ELSE NewDataStack]
           /\ heap = input.heap
           /\ pools = [p \in VMs |-> IF p = MainVM THEN input.pool ELSE NewGlobalPool]
    /\ cs = [vm \in VMs |->
                IF vm = MainVM THEN push_frame(NewCallStack, EntryFrame).cs ELSE NewCallStack]
    /\ status = [vm \in VMs |-> IF vm = MainVM THEN "running" ELSE "idle"]
    /\ error = [vm \in VMs |-> NoError]
    /\ result = [vm \in VMs |-> Noval]
    /\ gp = [vm \in VMs |-> vm]
    /\ last = NoLast
    /\ compiled = [vm \in VMs |-> FALSE]
    /\ snap = [vm \in VMs |-> NewGlobalPool]
    /\ wrote = [vm \in VMs |-> {}]
    /\ joining = [vm \in VMs |-> 0]
    /\ concurrency \in builds
    /\ steps = 0

InitOn(stacks, builds) ==
    InitOnHeap({[stack |-> operands, heap |-> <<>>, pool |-> NewGlobalPool] :
                   operands \in stacks}, builds)

(* SpecCalls: the VM about to execute Call n, LaunchThread n or            *)
(* LaunchAndJoin n on a stack of values, closures of both arities among    *)
(* them, in a build with and in one without concurrency.                   *)
CallOperands == {IntObj(1), ClosureObj(1, <<>>), ClosureObj(3, <<>>)}

InitCalls == InitOn(SeqsUpTo(CallOperands, DATA_STACK_SIZE), BOOLEAN)

NextCalls ==
    \/ \E n \in 0 .. MaxArgs, checked \in BOOLEAN : Call(MainVM, n, checked, FALSE) /\ Untimed
    \/ \E n \in 0 .. MaxArgs, join \in BOOLEAN : LaunchThread(MainVM, n, join) /\ Untimed

SpecCalls == InitCalls /\ [][NextCalls]_vars

(* SpecBulk: the VM calling functions without parameters, one of which has *)
(* two locals, from the entry routine and from a called function, on       *)
(* stacks of every height.                                                 *)
BulkOperands == {IntObj(1), ClosureObj(1, <<>>), ClosureObj(4, <<>>)}

InitBulk == InitOn(SeqsUpTo(BulkOperands, DATA_STACK_SIZE), {TRUE})

NextBulk ==
    \/ \E checked \in BOOLEAN : Call(MainVM, 0, checked, FALSE) /\ Untimed
    \/ \E k \in ValueConstants : Constant(MainVM, k) /\ Untimed

SpecBulk == InitBulk /\ [][NextBulk]_vars

(* SpecBuiltin: the VM about to load a built-in handle or to execute      *)
(* Call n on a stack of values and handles, with an intrinsic that         *)
(* succeeds or fails.                                                      *)
MaxBuiltinArgs == 2
BuiltinOperands == {IntObj(0), IntObj(1), StrObj(<<1>>), BuiltinObj(0)}

InitBuiltin == InitOn(SeqsUpTo(BuiltinOperands, DATA_STACK_SIZE), {TRUE})

NextBuiltin ==
    \/ \E idx \in 0 .. 1 : LoadBuiltIn(MainVM, idx) /\ Untimed
    \/ \E n \in 0 .. MaxBuiltinArgs, fails \in BOOLEAN :
           Call(MainVM, n, TRUE, fails) /\ Untimed

SpecBuiltin == InitBuiltin /\ [][NextBuiltin]_vars

(* SpecAssert: the VM about to execute AssertFail, on a stack of values or *)
(* in a function it has just called.                                       *)
AssertOperands == {IntObj(1), StrObj(<<1>>), StrObj(<<1, 2>>), ClosureObj(1, <<>>)}

InitAssert == InitOn(SeqsUpTo(AssertOperands, DATA_STACK_SIZE), {TRUE})

NextAssert ==
    \/ \E checked \in BOOLEAN : Call(MainVM, 0, checked, FALSE) /\ Untimed
    \/ AssertFail(MainVM) /\ Untimed

SpecAssert == InitAssert /\ [][NextAssert]_vars

(* SpecClosure: the VM that builds closures over up to MaxFree captured    *)
(* values, calls them and loads the captured values in the callee.         *)
MaxFree == 2
MaxClosureSteps == 4
FreeOperands == {IntObj(0), IntObj(1), IntObj(2)}

InitClosure == InitOn(SeqsUpTo(FreeOperands, DATA_STACK_SIZE - 1), {TRUE})

NextClosure ==
    \/ \E f \in PlainFnConstants, n \in 0 .. MaxFree :
           Closure(MainVM, f, n) /\ Tick(MaxClosureSteps)
    \/ \E checked \in BOOLEAN : Call(MainVM, 0, checked, FALSE) /\ Tick(MaxClosureSteps)
    \/ \E k \in 0 .. MaxFree : LoadFree(MainVM, k) /\ Tick(MaxClosureSteps)

SpecClosure == InitClosure /\ [][NextClosure]_vars

(* SpecLoop: the VM running LoopProgram over an array of up to MaxLen      *)
(* elements that earlier instructions built and left on the stack.  The    *)
(* dispatch loop runs until the VM ends: it always takes its next step.    *)
MaxLen == 3

LoopElements == {IntObj(0), IntObj(1), StrObj(<<1>>)}

InitLoop ==
    InitOnHeap({[stack |-> <<ArrayObj(1)>>, heap |-> <<ArrayCell(elements)>>,
                 pool |-> NewGlobalPool] :
                   elements \in SeqsUpTo(LoopElements, MaxLen)}, {TRUE})

NextLoop ==
    \/ Iter(MainVM) /\ Untimed
    \/ IterNext(MainVM) /\ Untimed
    \/ StoreElement(MainVM) /\ Untimed
    \/ Jump(MainVM) /\ Untimed
    \/ EndOfProgram(MainVM) /\ Untimed

SpecLoop == InitLoop /\ [][NextLoop]_vars /\ WF_vars(NextLoop)

(* SpecIter: the VM about to execute IterNext p, its enumerating variant   *)
(* or NotJump p, with an iterator over an array or a string, or a value,   *)
(* on the stack; StoreGlobal consumes what an iteration step pushes.       *)
(* Positions 0 .. CodeEnd are in the code range of the routine.            *)
CodeEnd == 2
JumpTargets == 0 .. CodeEnd + 1

TruthOperands ==
    {IntObj(0), IntObj(1), Float(0, 1), Float(1, 2), StrObj(<<>>), StrObj(<<1>>),
     BoolObj(TRUE), BoolObj(FALSE), Noval, ArrayObj(1)}

IterInputs ==
    {[stack |-> <<IterObj(2)>>,
      heap |-> <<ArrayCell(elements), IterCell(ArrayObj(1))>>,
      pool |-> NewGlobalPool] : elements \in SeqsUpTo(LoopElements, MaxLen)}
    \cup {[stack |-> <<x>>, heap |-> <<ArrayCell(elements)>>, pool |-> NewGlobalPool] :
             x \in TruthOperands, elements \in {<<>>, <<IntObj(0)>>}}
    \cup {[stack |-> <<IntObj(1), IterObj(1)>>,
           heap |-> <<IterCell(StrObj(<<1, 2>>))>>, pool |-> NewGlobalPool]}

InitIter == InitOnHeap(IterInputs, {TRUE})

NextIter ==
    \/ \E p \in JumpTargets, enumerate \in BOOLEAN :
           IterNextTo(MainVM, p, enumerate, CodeEnd) /\ Untimed
    \/ \E p \in JumpTargets : NotJump(MainVM, p, CodeEnd) /\ Untimed
    \/ StoreGlobal(MainVM, 0) /\ Untimed

SpecIter == InitIter /\ [][NextIter]_vars

(* SpecIterCalled: the VM about to call a function that loads the iterator *)
(* a global holds and steps it.                                            *)
CalledIterInputs ==
    {[stack |-> <<ClosureObj(1, <<>>)>>,
      heap |-> <<ArrayCell(elements), IterCell(ArrayObj(1))>>,
      pool |-> GlobalPoolOn(IterObj(2))] : elements \in SeqsUpTo(LoopElements, MaxLen)}

InitIterCalled == InitOnHeap(CalledIterInputs, {TRUE})

NextIterCalled ==
    \/ \E checked \in BOOLEAN : Call(MainVM, 0, checked, FALSE) /\ Untimed
    \/ LoadGlobal(MainVM, 0) /\ Untimed
    \/ \E p \in JumpTargets, enumerate \in BOOLEAN :
           IterNextTo(MainVM, p, enumerate, CodeEnd) /\ Untimed
    \/ StoreGlobal(MainVM, 0) /\ Untimed

SpecIterCalled == InitIterCalled /\ [][NextIterCalled]_vars

(* SpecIndex: the VM running up to MaxIndexSteps instructions over         *)
(* containers: an array of three elements and a hash table of two entries  *)
(* that BuildArray and BuildHash built, referenced from the stack and from *)
(* global 0, with indices in and out of range and keys present and absent. *)
MaxIndexSteps == 3

SetIndexOperands == 3

BuiltHeap ==
    <<ArrayCell(<<IntObj(0), StrObj(<<1>>), IntObj(2)>>),
      HashCell(<<<<IntObj(0), IntObj(2)>>, <<StrObj(<<1>>), IntObj(0)>>>>)>>

BuiltContainers == {ArrayObj(1), HashObj(2)}


InitIndex ==
    InitOnHeap({[stack |-> operands, heap |-> BuiltHeap, pool |-> GlobalPoolOn(global)] :
                   operands \in SeqsUpTo(IndexValues \cup BuiltContainers, SetIndexOperands),
                   global \in {Noval} \cup BuiltContainers}, {TRUE})

NextIndex ==
    \/ \E k \in IndexConstants : Constant(MainVM, k) /\ Tick(MaxIndexSteps)
    \/ BuildArray(MainVM, 2) /\ Tick(MaxIndexSteps)
    \/ \E hash_panics \in BOOLEAN : BuildHash(MainVM, 2, hash_panics) /\ Tick(MaxIndexSteps)
    \/ GetIndex(MainVM) /\ Tick(MaxIndexSteps)
    \/ SetIndex(MainVM) /\ Tick(MaxIndexSteps)

SpecIndex == InitIndex /\ [][NextIndex]_vars

-----------------------------------------------------------------------------
(* BosonLang (api/mod.rs).  BosonLang holds the parser, the compiler and   *)
(* `vm: Option<BosonVM>`; the VM it holds is MainVM, and status "idle" is  *)
(* vm = None.  eval_state parses and compiles the buffer update() handed   *)
(* to the lexer, creates a VM for the bytecode, runs it, and returns what  *)
(* it returned.  The record of a return of eval_state carries, in r, "Ok"  *)
(* or the ErrorKind of the failure and, in objs, the Option it returns:    *)
(* <<>> is None and <<x>> is Some(x).                                      *)

BufferOutcomes == {"ParserError", "CompileError", "Bytecode"}

(* __get_bytecode: the parser's error, else the compiler's, else the       *)
(* bytecode.                                                               *)
get_bytecode(buffer) ==
    IF buffer = "ParserError" THEN [is_err |-> TRUE, kind |-> "ParserError"]
    ELSE IF buffer = "CompileError" THEN [is_err |-> TRUE, kind |-> "CompileError"]
    ELSE [is_err |-> FALSE, kind |-> "None"]

eval_state_globals_fresh(vm_is_none, globals) == NewGlobalPool

(* BosonVM::new(&bytecode) when there is no VM yet, else                   *)
(* BosonVM::new_state(&bytecode, self.vm.globals.clone()): the global pool *)
(* of the VM eval_state creates.                                           *)
eval_state_globals(vm_is_none, globals) ==
    IF vm_is_none THEN NewGlobalPool ELSE globals

eval_state_returns_some(result_is_err, obj) == <<obj>>

(* `if result.is_err() { ...; return None; } return Some(result.unwrap())` *)
eval_state_returns(result_is_err, obj) ==
    IF result_is_err THEN <<>> ELSE <<obj>>

ApiLast(r, objs) == LastOn(MainVM, "eval_state", 0, r, objs)

(* eval_state is called while no evaluation is under way.                  *)
Returned == last.inst \in {"None", "eval_state"}
VmIsNone == status[MainVM] = "idle"

(* eval_state up to the call of eval_bytecode: a buffer that does not      *)
(* parse or compile makes it return None before the VM is touched; else    *)
(* the new VM replaces the old one.  snap records the pool as the previous *)
(* VM left it.                                                             *)
EvalState(buffer) ==
    /\ Returned
    /\ status[MainVM] \in {"idle", "done", "error"}
    /\ LET bytecode == get_bytecode(buffer) IN
       IF bytecode.is_err
       THEN /\ last' = ApiLast(bytecode.kind, <<>>)
            /\ UNCHANGED <<ds, cs, status, error, result, pools, snap, wrote>>
       ELSE /\ ds' = [ds EXCEPT ![MainVM] = NewDataStack]
            /\ cs' = [cs EXCEPT ![MainVM] = push_frame(NewCallStack, EntryFrame).cs]
            /\ status' = [status EXCEPT ![MainVM] = "running"]
            /\ error' = [error EXCEPT ![MainVM] = NoError]
            /\ result' = [result EXCEPT ![MainVM] = Noval]
            /\ pools' = [pools EXCEPT ![gp[MainVM]] = eval_state_globals(VmIsNone, @)]
            /\ snap' = [snap EXCEPT ![MainVM] = pools[gp[MainVM]]]
            /\ wrote' = [wrote EXCEPT ![MainVM] = {}]
            /\ last' = Last(MainVM, "NewVM", 0, "Ok")
    /\ UNCHANGED <<gp, compiled, joining, concurrency, heap>>

(* eval_bytecode has returned: eval_state returns None for its error and   *)
(* Some(object) for its result.                                            *)
EvalReturn ==
    /\ ~Returned
    /\ status[MainVM] \in {"done", "error"}
    /\ LET result_is_err == status[MainVM] = "error" IN
       last' = ApiLast(IF result_is_err THEN "VMError" ELSE "Ok",
                       eval_state_returns(result_is_err, result[MainVM]))
    /\ UNCHANGED <<ds, cs, status, error, result, pools, gp, compiled, snap, wrote, joining,
                   concurrency, heap>>

(* SpecApi: one BosonLang evaluating buffers one after the other, for      *)
(* MaxApiSteps steps in all: buffers that fail to parse or to compile, and *)
(* programs that push a constant, store to and load from global 0, fail an *)
(* assertion and return.                                                   *)
MaxApiSteps == 8

InitApi ==
    /\ ds = [vm \in VMs |-> NewDataStack]
    /\ cs = [vm \in VMs |-> NewCallStack]
    /\ status = [vm \in VMs |-> "idle"]
    /\ error = [vm \in VMs |-> NoError]
    /\ result = [vm \in VMs |-> Noval]
    /\ pools = [p \in VMs |-> NewGlobalPool]
    /\ gp = [vm \in VMs |-> vm]
    /\ last = NoLast
    /\ compiled = [vm \in VMs |-> FALSE]
    /\ snap = [vm \in VMs |-> NewGlobalPool]
    /\ wrote = [vm \in VMs |-> {}]
    /\ joining = [vm \in VMs |-> 0]
    /\ concurrency = TRUE
    /\ steps = 0
    /\ heap = <<>>

NextApi ==
    \/ \E buffer \in BufferOutcomes : EvalState(buffer) /\ Tick(MaxApiSteps)
    \/ EvalReturn /\ Tick(MaxApiSteps)
    \/ \E k \in ValueConstants : Constant(MainVM, k) /\ Tick(MaxApiSteps)
    \/ StoreGlobal(MainVM, 0) /\ Tick(MaxApiSteps)
    \/ LoadGlobal(MainVM, 0) /\ Tick(MaxApiSteps)
    \/ AssertFail(MainVM) /\ Tick(MaxApiSteps)
    \/ \E has_val \in BOOLEAN : Return(MainVM, has_val) /\ Tick(MaxApiSteps)

SpecApi == InitApi /\ [][NextApi]_vars

-----------------------------------------------------------------------------
(* Properties of the stacks and of call and return *)

Stepped == last.inst # "None"
StackOf(vm) == ds[vm].stack
NotPanicked(vm) == status[vm] \in {"running", "waiting", "done", "error"}

(* Instructions whose handler starts by popping the data stack, and those  *)
(* that only push one value.                                               *)
PopFirst == {"StoreGlobal", "StoreLocal", "Call", "RetVal"}
PushOnly == {"Constant"}

\* C1: after every instruction handler that completes without error, Call on
\* a closure and Ret/RetVal included, the data stack has
\* stack_pointer = stack.len() - 1.
C1_StackPointerIsTop ==
    (Stepped /\ last.r = "Ok") =>
        ds[last.vm].stack_pointer = Len(StackOf(last.vm)) - 1

\* C2: a Call n on a closure followed by its matching Ret or RetVal leaves the
\* data stack at the height beneath the callee and its n arguments plus 1.
C2_CallReturnNetPlusOne ==
    [][\A vm \in VMs :
          (/\ last'.vm = vm
           /\ last'.inst \in {"Ret", "RetVal"}
           /\ last'.r = "Ok"
           /\ Len(cs[vm].stack) > 1)
          => Len(ds'[vm].stack) = TopFrame(vm).h + 1]_vars

\* C3: on both stacks a push onto a stack that holds max_size elements returns
\* a stack-overflow error and a pop from an empty stack returns a
\* stack-underflow error, and the stack and its pointer stay as they were.
C3_FullAndEmptyStacksFailCleanly ==
    [][\A vm \in VMs :
          (last'.vm = vm) =>
             /\ (last'.inst \in PopFirst /\ Len(StackOf(vm)) = 0) =>
                    /\ status'[vm] = "error"
                    /\ error'[vm].kind = "DataStackUnderflow"
                    /\ ds'[vm] = ds[vm]
             /\ (last'.inst \in PushOnly /\ Len(StackOf(vm)) = DATA_STACK_SIZE) =>
                    /\ status'[vm] = "error"
                    /\ error'[vm].kind = "DataStackOverflow"
                    /\ ds'[vm] = ds[vm]
             /\ (/\ last'.inst = "Call"
                 /\ Len(cs[vm].stack) = FRAME_STACK_SIZE
                 /\ execute_call(ds[vm], last'.n, TRUE, FALSE).some_frame) =>
                    /\ status'[vm] = "error"
                    /\ error'[vm].kind = "CallStackOverflow"
                    /\ cs'[vm] = cs[vm]]_vars

\* C4: in every reachable state the data stack has -1 <= stack_pointer < max_size,
\* also right after a closure call reserved its local slots on a stack that is
\* then exactly full.
C4_StackPointerInRange ==
    \A vm \in VMs :
        NotPanicked(vm) =>
            (-1 <= ds[vm].stack_pointer /\ ds[vm].stack_pointer < DATA_STACK_SIZE)

\* C5: Call n on a closure creates a frame whose base pointer is sp - n + 1, sp
\* being the data-stack top index after the callee was popped, for every stack
\* height, n = 0 with one value left on the stack included.
C5_CallBasePointer ==
    [][\A vm \in VMs :
          (/\ last'.vm = vm
           /\ last'.inst = "Call"
           /\ last'.r = "Ok"
           /\ Len(cs'[vm].stack) = Len(cs[vm].stack) + 1)
          => cs'[vm].stack[Len(cs'[vm].stack)].base_pointer
                 = (ds[vm].stack_pointer - 1) - last'.n + 1]_vars

\* C6: the base pointer of every frame created by Call is <= the data-stack
\* length when the frame is created and for as long as the frame is on the
\* call stack, across nested calls and returns.
C6_BasePointerWithinStack ==
    \A vm \in VMs :
        status[vm] = "running" =>
            \A i \in 2 .. Len(cs[vm].stack) :
                cs[vm].stack[i].base_pointer <= Len(StackOf(vm))

\* C10: Call on a popped value that is neither a built-in handle nor a closure
\* context fails with a stack-corruption error that cites the type of the
\* value, and creates no frame.
C10_CallNonCallable ==
    [][\A vm \in VMs :
          (/\ last'.vm = vm
           /\ last'.inst = "Call"
           /\ pop_object(ds[vm]).r = "Ok"
           /\ pop_object(ds[vm]).obj.t \notin {"Builtins", "ClosureContext"})
          => /\ status'[vm] = "error"
             /\ error'[vm].kind = "StackCorruption"
             /\ error'[vm].msg = <<"Cannot call", get_type(pop_object(ds[vm]).obj)>>
             /\ cs'[vm] = cs[vm]]_vars

-----------------------------------------------------------------------------
(* Properties of arithmetic *)


\* C9: Div and Mod with a zero right operand (Int 0 or Float 0.0) fail with a
\* divide-by-zero error for all four Int/Float operand pairings; no result is
\* pushed and the VM does not crash.
C9_DivModByZero ==
    [][\A vm \in VMs :
          (/\ last'.vm = vm
           /\ last'.inst \in {"Div", "Mod"}
           /\ Len(StackOf(vm)) >= 2
           /\ Numeric(StackOf(vm)[Len(StackOf(vm)) - 1])
           /\ Zero(StackOf(vm)[Len(StackOf(vm))]))
          => /\ status'[vm] = "error"
             /\ error'[vm].kind = "DivideByZeroError"
             /\ ds'[vm].stack = SubSeq(StackOf(vm), 1, Len(StackOf(vm)) - 2)
             /\ ds'[vm].stack_pointer = ds[vm].stack_pointer - 2]_vars

C9_FloatByIntZeroFailed ==
    /\ last.inst = "Div"
    /\ Len(last.objs) = 2
    /\ last.objs[1].t = "Float"
    /\ last.objs[2] = IntObj(0)
    /\ status[last.vm] = "error"
    /\ error[last.vm].kind = "DivideByZeroError"

-----------------------------------------------------------------------------
(* Properties of the workers' globals *)

Visible(vm) == pools[gp[vm]]
Spawned(vm) == vm = MainVM \/ status[vm] # "idle"
TopOf(d) == d.stack[Len(d.stack)]

\* C7: a worker spawned by LaunchThread reads the global pool as it was at
\* spawn time: a slot the worker has not stored to itself loads the value the
\* slot had at the spawn, whatever the parent VM has stored since, under every
\* interleaving of parent and worker steps.
C7_WorkerReadsSpawnTimeGlobals ==
    [][\A w \in Workers :
          (/\ last'.vm = w
           /\ last'.inst = "LoadGlobal"
           /\ last'.r = "Ok"
           /\ last'.n \notin wrote[w])
          => TopOf(ds'[w]) = snap[w][last'.n + 1]]_vars

C7_WorkerLoadedAfterParentStore ==
    /\ last.vm \in Workers
    /\ last.inst = "LoadGlobal"
    /\ last.r = "Ok"
    /\ last.n \notin wrote[last.vm]
    /\ last.n \in wrote[MainVM]
    /\ pools[gp[MainVM]][last.n + 1] # snap[last.vm][last.n + 1]
    /\ TopOf(ds[last.vm]) = snap[last.vm][last.n + 1]

\* C8: a StoreGlobal executed by a worker changes only that worker's snapshot:
\* the globals visible to the parent VM and to every other worker stay as they
\* were, the join does not merge them back, and a worker spawned later starts
\* from the parent's globals.
C8_WorkerStoreStaysInItsSnapshot ==
    [][/\ \A w \in Workers :
            (last'.vm = w /\ last'.inst = "StoreGlobal")
            => \A v \in VMs \ {w} : Spawned(v) => Visible(v)' = Visible(v)
       /\ \A vm \in VMs :
            (last'.vm = vm /\ last'.inst = "Join")
            => \A v \in VMs : Visible(v)' = Visible(v)
       /\ \A w \in Workers :
            (~Spawned(w) /\ Spawned(w)')
            => Visible(w)' = Visible(last'.vm)]_vars

C8_ParentJoinedWorkerThatStored ==
    /\ last.vm = MainVM
    /\ last.inst = "Join"
    /\ last.r = "Ok"
    /\ wrote[last.n] # {}
    /\ Visible(last.n) # Visible(MainVM)
    /\ wrote[MainVM] = {}
    /\ Visible(MainVM) = NewGlobalPool

-----------------------------------------------------------------------------
(* Properties of calls and thread launches *)

Launches == {"LaunchThread", "LaunchAndJoin"}
NoWorkerCreated == \A w \in Workers : status'[w] = status[w] /\ ds'[w] = ds[w] /\ cs'[w] = cs[w]

\* C11: when ENABLE_CONCURRENCY is false, LaunchThread and LaunchAndJoin fail
\* at once with an illegal-operation error: nothing is popped from the data
\* stack and no worker is created.
C11_LaunchWithoutConcurrency ==
    [][\A vm \in VMs :
          (last'.vm = vm /\ last'.inst \in Launches /\ ~concurrency)
          => /\ status'[vm] = "error"
             /\ error'[vm].kind = "IllegalOperation"
             /\ ds'[vm] = ds[vm]
             /\ NoWorkerCreated]_vars

C11_LaunchOfClosureRefused ==
    /\ ~concurrency
    /\ last.inst = "LaunchThread"
    /\ last.n = 0
    /\ Len(StackOf(MainVM)) > 0
    /\ TopOf(ds[MainVM]) = ClosureObj(1, <<>>)
    /\ status[MainVM] = "error"
    /\ error[MainVM].kind = "IllegalOperation"
    /\ \A w \in Workers : status[w] = "idle"

\* C12: Call n and LaunchThread n on a closure whose subroutine.num_parameters
\* differs from n fail with a function-arguments error; no frame is pushed and
\* no worker is spawned.
C12_ArityMismatch ==
    [][\A vm \in VMs :
          (/\ last'.vm = vm
           /\ last'.inst \in {"Call"} \cup Launches
           /\ last'.inst \in Launches => concurrency
           /\ pop_object(ds[vm]).r = "Ok"
           /\ pop_object(ds[vm]).obj.t = "ClosureContext"
           /\ num_parameters(pop_object(ds[vm]).obj) # last'.n)
          => /\ status'[vm] = "error"
             /\ error'[vm].kind = "FunctionArgumentsError"
             /\ cs'[vm] = cs[vm]
             /\ NoWorkerCreated]_vars

C12_CallWithTooFewArguments ==
    /\ last.inst = "Call"
    /\ last.n = 0
    /\ status[MainVM] = "error"
    /\ error[MainVM].kind = "FunctionArgumentsError"
    /\ Len(cs[MainVM].stack) = 1
    /\ Len(StackOf(MainVM)) = 1

-----------------------------------------------------------------------------
(* Properties of iteration and of indexing *)

IterOnTop(vm) ==
    /\ Len(StackOf(vm)) > 0
    /\ TopOf(ds[vm]).t = "Iter"
    /\ heap[TopOf(ds[vm]).a].src.t = "Array"
IterCellOnTop(vm) == heap[TopOf(ds[vm]).a]
Ended(vm) == status[vm] = "done"

IsContainer(o) == o.t \in {"Array", "HashTable"}

(* i names an element of the array c, or is a key the hash table c admits. *)
Indexes(h, c, i) ==
    \/ c.t = "Array" /\ i.t = "Int" /\ ElemPos(Len(h[c.a].elems), i.a) # 0
    \/ c.t = "HashTable" /\ Hashable(i)

Lookup(entries, key) == entries[KeyPos(entries, key)][2]
Keys(entries) == {entries[k][1] : k \in 1 .. Len(entries)}

(* The cell `new` holds the contents of `old` with [i] = v, and nothing    *)
(* else changed.                                                           *)
IsWith(t, new, old, i, v) ==
    IF t = "Array"
    THEN /\ Len(new.elems) = Len(old.elems)
         /\ \A k \in 1 .. Len(old.elems) :
                new.elems[k] = IF k = ElemPos(Len(old.elems), i.a) THEN v ELSE old.elems[k]
    ELSE /\ Keys(new.elems) = Keys(old.elems) \cup {i}
         /\ Len(new.elems) = Cardinality(Keys(new.elems))
         /\ \A key \in Keys(new.elems) :
                Lookup(new.elems, key) = IF key = i THEN v ELSE Lookup(old.elems, key)

(* The step is a SetIndex of vm that found i, c, v at the three positions  *)
(* `at` of the stack, counted from the top (1), and replaced them with c'. *)
SetIndexOn(vm, at) ==
    LET n == Len(StackOf(vm))
        i == StackOf(vm)[n + 1 - at.i]
        c == StackOf(vm)[n + 1 - at.c]
        v == StackOf(vm)[n + 1 - at.v]
    IN (/\ IsContainer(c)
        /\ Indexes(heap, c, i))
       => /\ status'[vm] = "running"
          /\ Len(StackOf(vm)') = n - 2
          /\ SubSeq(StackOf(vm)', 1, n - 3) = SubSeq(StackOf(vm), 1, n - 3)
          /\ TopOf(ds'[vm]).t = c.t
          /\ IsWith(c.t, heap'[TopOf(ds'[vm]).a], heap[c.a], i, v)

SetIndexStep(vm) ==
    /\ last'.vm = vm
    /\ last'.inst = "SetIndex"
    /\ Len(StackOf(vm)) >= SetIndexOperands

\* C14: for a container c, an in-range integer index (array) or admissible key
\* (hash) i and a value v: GetIndex on the container produced by
\* SetIndex(c, i, v) with the same i yields v, and for an array the length of
\* the result equals the length of c.
C14_GetIndexAfterSetIndex ==
    /\ [][\A vm \in VMs :
             (/\ last'.vm = vm
              /\ last'.inst = "GetIndex"
              /\ Len(StackOf(vm)) >= 2
              /\ IsContainer(StackOf(vm)[Len(StackOf(vm)) - 1])
              /\ heap[StackOf(vm)[Len(StackOf(vm)) - 1].a].hist # <<>>
              /\ heap[StackOf(vm)[Len(StackOf(vm)) - 1].a].hist[1] = TopOf(ds[vm]))
             => /\ status'[vm] = "running"
                /\ TopOf(ds'[vm]) = heap[StackOf(vm)[Len(StackOf(vm)) - 1].a].hist[2]]_vars
    /\ [](\A a \in 1 .. Len(heap) :
             (heap[a].t = "Array" /\ heap[a].hist # <<>>)
             => Len(heap[a].elems) = Len(heap[heap[a].hist[3].a].elems))

C14_ReadBackFromArray ==
    /\ last.inst = "GetIndex"
    /\ last.r = "Ok"
    /\ Len(heap) = Len(BuiltHeap) + 1
    /\ heap[Len(heap)].t = "Array"
    /\ heap[Len(heap)].hist # <<>>
    /\ heap[Len(heap)].hist[1] = IntObj(-1)
    /\ TopOf(ds[MainVM]) = heap[Len(heap)].hist[2]
    /\ TopOf(ds[MainVM]) # heap[heap[Len(heap)].hist[3].a].elems[3]

\* C15 (as stated): SetIndex executed on a data stack ending in i, c, v (v on
\* top, c beneath it, i beneath c) replaces the three values with one
\* container c' that is c with c[i] = v.
C15_SetIndexValueOnTop ==
    [][\A vm \in VMs : SetIndexStep(vm) => SetIndexOn(vm, [i |-> 3, c |-> 2, v |-> 1])]_vars

\* C15 (amended): SetIndex executed on a data stack ending in v, c, i (i on
\* top, c beneath it, v beneath c) replaces the three values with one
\* container c' that is c with c[i] = v.
C15_SetIndexIndexOnTop ==
    [][\A vm \in VMs : SetIndexStep(vm) => SetIndexOn(vm, [i |-> 1, c |-> 2, v |-> 3])]_vars

C15_HashEntryAssigned ==
    /\ last.inst = "SetIndex"
    /\ last.r = "Ok"
    /\ last.objs = <<StrObj(<<1>>), HashObj(2), IntObj(3)>>
    /\ TopOf(ds[MainVM]).t = "HashTable"
    /\ Lookup(heap[TopOf(ds[MainVM]).a].elems, StrObj(<<1>>)) = IntObj(3)
    /\ Lookup(heap[2].elems, StrObj(<<1>>)) = IntObj(0)

\* C16: SetIndex never mutates the container object it popped: every other
\* reference to that container (a local slot, a global, a constant) still
\* observes the old contents, and the pushed result is a distinct new object.
C16_SetIndexCopies ==
    [][\A vm \in VMs :
          (SetIndexStep(vm) /\ last'.r = "Ok")
          => /\ \A a \in 1 .. Len(heap) : heap'[a] = heap[a]
             /\ TopOf(ds'[vm]).a \notin 1 .. Len(heap)
             /\ pools' = pools]_vars

C16_GlobalKeepsOldArray ==
    /\ last.inst = "SetIndex"
    /\ last.r = "Ok"
    /\ last.objs[2] = ArrayObj(1)
    /\ pools[gp[MainVM]][1] = ArrayObj(1)
    /\ TopOf(ds[MainVM]) # ArrayObj(1)
    /\ heap[1] = BuiltHeap[1]
    /\ heap[TopOf(ds[MainVM]).a].elems # heap[1].elems

-----------------------------------------------------------------------------
(* Properties of the arithmetic and bitwise instructions *)

BinaryOps == ArithmeticOps \cup BitwiseOps
Beneath(vm) == StackOf(vm)[Len(StackOf(vm)) - 1]
OnTop(vm) == StackOf(vm)[Len(StackOf(vm))]
Den(o) == IF o.t = "Float" THEN o.b ELSE 1

(* o is the number l - r.                                                  *)
IsDifference(o, l, r) ==
    o.a * Den(l) * Den(r) = (l.a * Den(r) - r.a * Den(l)) * Den(o)

\* C17: a binary instruction executed on a data stack ending in l, r (r on
\* top), for which op(l, r) is defined, pops both and pushes op(l, r) with l
\* as the left and r as the right operand, so the stack height decreases by
\* exactly 1; for Sub the pushed number is l - r, and for Div and Mod on
\* integers it is the quotient and the remainder of l by r.
C17_BinaryOpOperandOrder ==
    [][\A vm \in VMs :
          (/\ last'.vm = vm
           /\ last'.inst \in BinaryOps
           /\ Len(StackOf(vm)) >= 2
           /\ binary_op(last'.inst, Beneath(vm), OnTop(vm)).r = "Ok")
          => /\ last'.r = "Ok"
             /\ status'[vm] = "running"
             /\ ds'[vm].stack =
                    SubSeq(StackOf(vm), 1, Len(StackOf(vm)) - 2)
                    \o <<binary_op(last'.inst, Beneath(vm), OnTop(vm)).obj>>
             /\ ds'[vm].stack_pointer = ds[vm].stack_pointer - 1
             /\ last'.inst = "Sub"
                => IsDifference(TopOf(ds'[vm]), Beneath(vm), OnTop(vm))
             /\ (last'.inst = "Div" /\ Beneath(vm).t = "Int" /\ OnTop(vm).t = "Int")
                => TopOf(ds'[vm]) = IntObj(TruncDiv(Beneath(vm).a, OnTop(vm).a))
             /\ (last'.inst = "Mod" /\ Beneath(vm).t = "Int" /\ OnTop(vm).t = "Int")
                => TopOf(ds'[vm]) = IntObj(Rem(Beneath(vm).a, OnTop(vm).a))]_vars

C17_SubtractedRightFromLeft ==
    /\ last.inst = "Sub"
    /\ last.r = "Ok"
    /\ last.objs = <<IntObj(2), IntObj(-3)>>
    /\ ds[last.vm].stack = <<IntObj(5)>>

\* C18: Add, Sub, Mul, Div and Mod on two numeric operands, the right one
\* not zero for Div and Mod, produce an Int when both operands are Int and a
\* Float when at least one operand is a Float.
C18_ArithmeticResultType ==
    [][\A vm \in VMs :
          (/\ last'.vm = vm
           /\ last'.inst \in ArithmeticOps
           /\ Len(StackOf(vm)) >= 2
           /\ Numeric(Beneath(vm))
           /\ Numeric(OnTop(vm))
           /\ last'.inst \in {"Div", "Mod"} => ~Zero(OnTop(vm)))
          => /\ last'.r = "Ok"
             /\ Len(ds'[vm].stack) = Len(StackOf(vm)) - 1
             /\ TopOf(ds'[vm]).t =
                    IF Beneath(vm).t = "Int" /\ OnTop(vm).t = "Int"
                    THEN "Int" ELSE "Float"]_vars

C18_IntTimesFloatIsFloat ==
    /\ last.inst = "Mul"
    /\ last.r = "Ok"
    /\ last.objs = <<IntObj(2), Float(1, 2)>>
    /\ ds[last.vm].stack = <<Float(1, 1)>>

BothNumeric(vm) == Numeric(Beneath(vm)) /\ Numeric(OnTop(vm))
BothStr(vm) == Beneath(vm).t = "Str" /\ OnTop(vm).t = "Str"

\* C19: Add on two strings pushes their concatenation, the left one followed
\* by the right one; Add on a pair that is neither numeric-numeric nor
\* string-string, and Sub, Mul, Div, Mod on a pair that is not
\* numeric-numeric, fail with a type error and push nothing.
C19_AddConcatenatesElseTypeError ==
    [][\A vm \in VMs :
          (/\ last'.vm = vm
           /\ last'.inst \in ArithmeticOps
           /\ Len(StackOf(vm)) >= 2)
          => /\ (last'.inst = "Add" /\ BothStr(vm))
                => /\ last'.r = "Ok"
                   /\ ds'[vm].stack =
                          SubSeq(StackOf(vm), 1, Len(StackOf(vm)) - 2)
                          \o <<StrObj(Beneath(vm).e \o OnTop(vm).e)>>
             /\ (~BothNumeric(vm) /\ ~(last'.inst = "Add" /\ BothStr(vm)))
                => /\ last'.r = "Err"
                   /\ status'[vm] = "error"
                   /\ error'[vm].kind = "TypeError"
                   /\ ds'[vm].stack =
                          SubSeq(StackOf(vm), 1, Len(StackOf(vm)) - 2)]_vars

C19_ConcatenatedLeftThenRight ==
    /\ last.inst = "Add"
    /\ last.r = "Ok"
    /\ last.objs = <<StrObj(<<1>>), StrObj(<<2>>)>>
    /\ ds[last.vm].stack = <<StrObj(<<1, 2>>)>>

TypeErrorWithout(vm, n_operands) ==
    /\ last'.r = "Err"
    /\ status'[vm] = "error"
    /\ error'[vm].kind = "TypeError"
    /\ ds'[vm].stack = SubSeq(StackOf(vm), 1, Len(StackOf(vm)) - n_operands)

IntInPlaceOf(vm, n_operands) ==
    /\ last'.r = "Ok"
    /\ status'[vm] = "running"
    /\ Len(ds'[vm].stack) = Len(StackOf(vm)) - n_operands + 1
    /\ TopOf(ds'[vm]).t = "Int"

\* C20: And and Or succeed exactly when both operands are Int, and Neg
\* (bitwise not) exactly when its operand is an Int; with an operand of any
\* other type the instruction fails with a type error and pushes nothing.
C20_BitwiseOnlyOnInt ==
    [][\A vm \in VMs :
          /\ (/\ last'.vm = vm
              /\ last'.inst \in BitwiseOps
              /\ Len(StackOf(vm)) >= 2)
             => IF Beneath(vm).t = "Int" /\ OnTop(vm).t = "Int"
                THEN IntInPlaceOf(vm, 2)
                ELSE TypeErrorWithout(vm, 2)
          /\ (/\ last'.vm = vm
              /\ last'.inst = "Neg"
              /\ Len(StackOf(vm)) >= 1)
             => IF OnTop(vm).t = "Int"
                THEN IntInPlaceOf(vm, 1) /\ TopOf(ds'[vm]).a = -OnTop(vm).a - 1
                ELSE TypeErrorWithout(vm, 1)]_vars

C20_AndOnIntAndFloatFailed ==
    /\ last.inst = "And"
    /\ last.objs = <<IntObj(2), Float(1, 2)>>
    /\ status[last.vm] = "error"
    /\ error[last.vm].kind = "TypeError"
    /\ ds[last.vm].stack = <<>>

-----------------------------------------------------------------------------
(* Properties of returns, built-in calls and joins *)

Returns == {"Ret", "RetVal"}

\* C21: RetVal pops the return value and Ret takes the no-value sentinel;
\* either one truncates the data stack to the base pointer of the current
\* frame and pushes the return value: afterwards the data stack has length
\* bp + 1, the values beneath bp are kept and the top is the return value.
C21_ReturnTruncatesToBasePointer ==
    [][\A vm \in VMs :
          (/\ last'.vm = vm
           /\ last'.inst \in Returns
           /\ last'.r = "Ok")
          => LET bp == get_bp(TopFrame(vm)) IN
             /\ Len(ds'[vm].stack) = bp + 1
             /\ TopOf(ds'[vm]) = IF last'.inst = "RetVal" THEN OnTop(vm) ELSE Noval
             /\ \A i \in 1 .. bp :
                    i <= Len(StackOf(vm)) => ds'[vm].stack[i] = StackOf(vm)[i]]_vars

(* The n values beneath the top of the stack, first pushed first.          *)
ArgsBeneathTop(vm, n) ==
    SubSeq(StackOf(vm), Len(StackOf(vm)) - n, Len(StackOf(vm)) - 1)
BeneathArgs(vm, n) == SubSeq(StackOf(vm), 1, Len(StackOf(vm)) - n - 1)

\* C22: Call n on a built-in handle pops the handle and the n arguments,
\* passes the arguments to the intrinsic first pushed first, and creates no
\* frame; it pushes the intrinsic's one result, or, when the intrinsic
\* fails, pushes nothing and fails with a built-in-function error that
\* carries the intrinsic's message.
C22_BuiltinCall ==
    [][\A vm \in VMs :
          (/\ last'.vm = vm
           /\ last'.inst = "Call"
           /\ Len(StackOf(vm)) >= last'.n + 1
           /\ OnTop(vm).t = "Builtins")
          => LET args == ArgsBeneathTop(vm, last'.n)
                 rest == BeneathArgs(vm, last'.n)
             IN /\ cs'[vm] = cs[vm]
                /\ last'.objs = args
                /\ \/ /\ last'.r = "Ok"
                      /\ status'[vm] = "running"
                      /\ ds'[vm].stack = rest \o <<builtin_exec(OnTop(vm), args, FALSE).obj>>
                   \/ /\ last'.r = "Err"
                      /\ status'[vm] = "error"
                      /\ error'[vm].kind = "BuiltinFunctionError"
                      /\ error'[vm].msg = <<builtin_exec(OnTop(vm), args, TRUE).msg>>
                      /\ ds'[vm].stack = rest]_vars

C22_BuiltinCalledOnTwoArguments ==
    /\ last.inst = "Call"
    /\ last.n = 2
    /\ last.r = "Ok"
    /\ last.objs = <<IntObj(0), IntObj(1)>>
    /\ ds[last.vm].stack = <<IntObj(0)>>
    /\ Len(cs[last.vm].stack) = 1

Finished(w) == status[w] \in {"done", "error", "panic"}

\* C23: a VM that executes LaunchAndJoin n takes no step and keeps its data
\* stack until the spawned worker has finished; it then pushes exactly the
\* value the worker returned, or, if the worker ended with an error, pushes
\* nothing and fails with the worker's error.
C23_JoinWaitsForWorker ==
    [][\A vm \in VMs :
          status[vm] = "waiting"
          => LET w == joining[vm] IN
             /\ w \in Workers
             /\ (last'.vm = vm /\ last' # last) => last'.inst = "Join"
             /\ (status'[vm] = "waiting" \/ ~Finished(w))
                => /\ status'[vm] = "waiting"
                   /\ ds'[vm] = ds[vm]
                   /\ cs'[vm] = cs[vm]
             /\ (status'[vm] # "waiting" /\ status[w] = "done")
                => /\ status'[vm] = "running"
                   /\ ds'[vm].stack = Append(StackOf(vm), result[w])
             /\ (status'[vm] # "waiting" /\ status[w] = "error")
                => /\ status'[vm] = "error"
                   /\ ds'[vm] = ds[vm]
                   /\ error'[vm] = error[w]]_vars

C23_JoinedWorkerValuePushed ==
    /\ last.inst = "Join"
    /\ last.r = "Ok"
    /\ status[last.n] = "done"
    /\ result[last.n] = IntObj(1)
    /\ ds[last.vm].stack = <<IntObj(1)>>

\* C24: when a joined worker ended with a VMError, the joining VM fails with
\* an error of kind thread-wait error that wraps the worker's error.
C24_WorkerErrorWrapped ==
    [][\A vm \in VMs :
          (/\ status[vm] = "waiting"
           /\ status'[vm] # "waiting"
           /\ status[joining[vm]] = "error")
          => /\ status'[vm] = "error"
             /\ error'[vm].kind = "ThreadWaitError"]_vars

-----------------------------------------------------------------------------
(* Properties of AssertFail, closures, iteration steps and jumps *)

Contains(msg, part) == \E i \in 1 .. Len(msg) : msg[i] = part

\* C25: AssertFail never completes successfully: with a value on top of the
\* stack it pops it and fails with an assertion error whose message contains
\* the rendering of that value; with an empty stack it fails with a
\* data-stack underflow error.
C25_AssertFailAlwaysFails ==
    [][\A vm \in VMs :
          (last'.vm = vm /\ last'.inst = "AssertFail")
          => /\ status'[vm] = "error"
             /\ Len(StackOf(vm)) >= 1
                => /\ error'[vm].kind = "AssertionError"
                   /\ Contains(error'[vm].msg, describe(OnTop(vm)))
                   /\ ds'[vm].stack = SubSeq(StackOf(vm), 1, Len(StackOf(vm)) - 1)
             /\ Len(StackOf(vm)) = 0
                => error'[vm].kind = "DataStackUnderflow"]_vars

(* The n values on top of the stack, first pushed first.                   *)
TopValues(vm, n) == SubSeq(StackOf(vm), Len(StackOf(vm)) - n + 1, Len(StackOf(vm)))
Frees(closure) == closure.e

\* C26: Closure f,n executed on a stack ending in free1..freen (freen on
\* top) creates a closure whose captured vector is free1..freen in that
\* order; LoadFree k in a frame of a closure with n captured values pushes
\* the (k+1)-th of them for 0 <= k < n and fails with an error for k >= n.
C26_CapturedInPushOrder ==
    [][\A vm \in VMs :
          /\ (/\ last'.vm = vm
              /\ last'.inst = "Closure"
              /\ last'.r = "Ok")
             => \E n \in 0 .. Len(StackOf(vm)) :
                   /\ Len(ds'[vm].stack) = Len(StackOf(vm)) - n + 1
                   /\ Frees(TopOf(ds'[vm])) = TopValues(vm, n)
          /\ (last'.vm = vm /\ last'.inst = "LoadFree")
             => LET frees == Frees(TopFrame(vm).closure) IN
                IF last'.n < Len(frees)
                THEN last'.r = "Ok" => TopOf(ds'[vm]) = frees[last'.n + 1]
                ELSE /\ status'[vm] = "error"
                     /\ ds'[vm] = ds[vm]]_vars

IterNexts == {"IterNext", "EnumNext"}
AnyIterOnTop(vm) == Len(StackOf(vm)) > 0 /\ OnTop(vm).t = "Iter"
SourceOf(cell) == iter_source(heap, cell.src)
Ip(vm) == TopFrame(vm).ip
InCode(p) == p >= 0 /\ p <= CodeEnd

\* C27: IterNext p reads the iterator on top of the stack without popping it
\* and advances its cursor: if the source is exhausted it pops the iterator
\* and sets ip to p; otherwise it pushes the next element (and, in the
\* enumerating variant, one integer on top of it), leaves the iterator
\* directly beneath what it pushed and does not change ip.
C27_IterNextStep ==
    [][\A vm \in VMs :
          (/\ last'.vm = vm
           /\ last'.inst \in IterNexts
           /\ AnyIterOnTop(vm))
          => LET cell == heap[OnTop(vm).a]
                 k == cell.pos
                 pushes == IF last'.inst = "EnumNext" THEN 2 ELSE 1
             IN IF k < Len(SourceOf(cell))
                THEN Len(StackOf(vm)) + pushes <= DATA_STACK_SIZE
                     => /\ last'.r = "Ok"
                        /\ Len(StackOf(vm)') = Len(StackOf(vm)) + pushes
                        /\ SubSeq(StackOf(vm)', 1, Len(StackOf(vm))) = StackOf(vm)
                        /\ StackOf(vm)'[Len(StackOf(vm)) + 1] = SourceOf(cell)[k + 1]
                        /\ heap'[OnTop(vm).a].pos = k + 1
                        /\ Ip(vm)' = Ip(vm)
                ELSE InCode(last'.n)
                     => /\ last'.r = "Ok"
                        /\ StackOf(vm)' = SubSeq(StackOf(vm), 1, Len(StackOf(vm)) - 1)
                        /\ Ip(vm)' = last'.n]_vars

\* C28: the enumerating IterNext pushes the element and then, on top of it,
\* an Int equal to the cursor position of the iterator before this advance:
\* the k-th successful step over an array, counting from 0, pushes k.
C28_EnumeratePushesPositionBeforeAdvance ==
    [][\A vm \in VMs :
          (/\ last'.vm = vm
           /\ last'.inst = "EnumNext"
           /\ last'.r = "Ok"
           /\ AnyIterOnTop(vm)
           /\ Len(StackOf(vm)') > Len(StackOf(vm)))
          => LET cell == heap[OnTop(vm).a]
                 k == Len(cell.hist)
             IN /\ StackOf(vm)' = StackOf(vm) \o <<SourceOf(cell)[k + 1], IntObj(k)>>
                /\ heap'[OnTop(vm).a].hist = Append(cell.hist, SourceOf(cell)[k + 1])]_vars

C28_SecondElementEnumerated ==
    /\ last.inst = "EnumNext"
    /\ last.r = "Ok"
    /\ Len(heap) = 2
    /\ heap[1].elems = <<IntObj(0), StrObj(<<1>>)>>
    /\ StackOf(last.vm) = <<IterObj(2), StrObj(<<1>>), IntObj(1)>>

(* Truthy values: non-zero numbers, non-empty strings, arrays and hash     *)
(* tables, and true.                                                       *)
Truthy(x) ==
    \/ Numeric(x) /\ ~Zero(x)
    \/ x.t = "Str" /\ Len(x.e) > 0
    \/ x.t \in {"Array", "HashTable"} /\ Len(heap[x.a].elems) > 0
    \/ x = BoolObj(TRUE)

\* C29: NotJump p, p a position of the routine, pops exactly one value x; it
\* sets ip to p if and only if x is not truthy and leaves ip unchanged when
\* x is truthy.
C29_NotJump ==
    [][\A vm \in VMs :
          (/\ last'.vm = vm
           /\ last'.inst = "NotJump"
           /\ Len(StackOf(vm)) >= 1
           /\ InCode(last'.n))
          => /\ last'.r = "Ok"
             /\ StackOf(vm)' = SubSeq(StackOf(vm), 1, Len(StackOf(vm)) - 1)
             /\ Ip(vm)' = IF Truthy(OnTop(vm)) THEN Ip(vm) ELSE last'.n
             /\ heap' = heap]_vars

C29_JumpedOnEmptyString ==
    /\ last.inst = "NotJump"
    /\ last.r = "Ok"
    /\ last.objs = <<StrObj(<<>>)>>
    /\ last.n = CodeEnd
    /\ Ip(last.vm) = CodeEnd
    /\ StackOf(last.vm) = <<>>

(* The values GetIndex and SetIndex index: arrays, strings, byte buffers   *)
(* and hash tables.                                                        *)
Indexable(o) == o.t \in {"Array", "Str", "Bytes", "HashTable"}

\* C30: GetIndex and SetIndex applied to a value that is not an array, a
\* string, a byte buffer or a hash table fail with an error whose kind is
\* type error.
C30_IndexingOthersIsTypeError ==
    [][\A vm \in VMs :
          (/\ last'.vm = vm
           /\ \/ last'.inst = "GetIndex" /\ Len(StackOf(vm)) >= 2
              \/ last'.inst = "SetIndex" /\ Len(StackOf(vm)) >= SetIndexOperands
           /\ ~Indexable(Beneath(vm)))
          => /\ last'.r = "Err"
             /\ status'[vm] = "error"
             /\ error'[vm].kind = "TypeError"]_vars

(* The keys BuildHash n reads: with the n operands in push order, the     *)
(* first of every pair.                                                    *)
HashKeys(vm, n) ==
    {StackOf(vm)[Len(StackOf(vm)) - n + j] : j \in {k \in 1 .. n : k % 2 = 1}}

\* C31: BuildHash whose key operands include an unhashable value (array,
\* hash table, closure, iterator, thread handle, no-value) fails with a type
\* error and pushes no hash table.
C31_UnhashableKeyIsTypeError ==
    [][\A vm \in VMs :
          (/\ last'.vm = vm
           /\ last'.inst = "BuildHash"
           /\ last'.n % 2 = 0
           /\ Len(StackOf(vm)) >= last'.n
           /\ \E key \in HashKeys(vm, last'.n) : ~Hashable(key))
          => /\ last'.r = "Err"
             /\ status'[vm] = "error"
             /\ error'[vm].kind = "TypeError"
             /\ heap' = heap]_vars

(* The handlers that pop two operands.                                     *)
TwoOperandInsts == BinaryOps \cup {"GetIndex"}

\* C32: a handler that needs two operands (every binary operator, and
\* GetIndex) executed on a data stack holding fewer than two values ends
\* with a data-stack underflow error, both when the stack is empty and when
\* it holds exactly one value; it never crashes.
C32_TwoOperandUnderflow ==
    [][\A vm \in VMs :
          (/\ last'.vm = vm
           /\ last'.inst \in TwoOperandInsts
           /\ Len(StackOf(vm)) < 2)
          => /\ last'.r = "Err"
             /\ status'[vm] = "error"
             /\ error'[vm].kind = "DataStackUnderflow"]_vars

(* left / right and left % right on numbers: on two Ints the truncated     *)
(* quotient and its remainder, otherwise the quotient and the remainder of *)
(* the operands as floats.                                                 *)
FloatOf(x) == IF x.t = "Int" THEN AsFloat(x) ELSE x

Quotient(left, right) ==
    IF left.t = "Int" /\ right.t = "Int" THEN IntObj(TruncDiv(left.a, right.a))
    ELSE LET x == FloatOf(left)
             y == FloatOf(right)
         IN Float(x.a * y.b, x.b * y.a)

Remainder(left, right) ==
    IF left.t = "Int" /\ right.t = "Int" THEN IntObj(Rem(left.a, right.a))
    ELSE LET x == FloatOf(left)
             y == FloatOf(right)
         IN Float(Rem(x.a * y.b, y.a * x.b), x.b * y.b)

\* C33: for every numeric operand pair with a non-zero right operand, div
\* returns the quotient left / right and mod returns the remainder
\* left % right, including the pairing of a Float left operand with an Int
\* right operand.
C33_DivModOfNumbers ==
    [][\A vm \in VMs :
          (/\ last'.vm = vm
           /\ last'.inst \in {"Div", "Mod"}
           /\ Len(StackOf(vm)) >= 2
           /\ BothNumeric(vm)
           /\ ~Zero(OnTop(vm)))
          => /\ last'.r = "Ok"
             /\ StackOf(vm)' =
                    SubSeq(StackOf(vm), 1, Len(StackOf(vm)) - 2)
                    \o <<IF last'.inst = "Div" THEN Quotient(Beneath(vm), OnTop(vm))
                         ELSE Remainder(Beneath(vm), OnTop(vm))>>]_vars

(* The objects a call of closure pushes in bulk: one no-value for every    *)
(* local that is not a parameter.                                          *)
LocalSpace(closure) == [i \in 1 .. (num_locals(closure) - num_parameters(closure)) |-> Noval]

(* k successive single pushes all succeed.                                 *)
RECURSIVE PushedOneByOne(_, _)
PushedOneByOne(d, objects) ==
    \/ Len(objects) = 0
    \/ LET pushed == push_object(d, Head(objects))
       IN pushed.r = "Ok" /\ PushedOneByOne(pushed.ds, Tail(objects))

(* The data stack once the handler of Call has popped the closure.         *)
CalleePopped(vm) ==
    [stack |-> SubSeq(StackOf(vm), 1, Len(StackOf(vm)) - 1),
     stack_pointer |-> ds[vm].stack_pointer - 1]

TopReaders == {"RetVal", "StoreLocal"} \cup BinaryOps \cup IterNexts

(* vm runs a function entered by Call.                                     *)
InCallee(vm) == Len(cs[vm].stack) > 1

\* C35: in every state reachable after Call on a closure, a handler that
\* pops the data stack (RetVal, StoreLocal, a binary operator) or reads its
\* top (IterNext) either obtains an element that exists in the stack vector
\* or returns a data-stack underflow error; it never accesses a missing
\* element, even when the callee has no locals and has pushed nothing.
C35_CalleePopsExistingOrUnderflows ==
    [][\A vm \in VMs :
          (/\ last'.vm = vm
           /\ last'.inst \in TopReaders
           /\ InCallee(vm)
           /\ Len(StackOf(vm)) = 0)
          => /\ last'.r = "Err"
             /\ status'[vm] = "error"
             /\ error'[vm].kind = "DataStackUnderflow"]_vars

(* The caller's values beneath the arguments of the call that entered the  *)
(* function vm runs: the lowest TopFrame(vm).h slots of the data stack.    *)
CallerSlots(vm, stack) == SubSeq(stack, 1, TopFrame(vm).h)

\* C36: a closure call and its matching return leave every data-stack slot
\* beneath the call's arguments unchanged: the callee's StoreLocal k
\* (k < num_locals) and the return's truncation never overwrite or discard a
\* caller value, including for a zero-argument call made with exactly one
\* caller value on the stack.
C36_CallerSlotsKept ==
    [][\A vm \in VMs :
          (/\ last'.vm = vm
           /\ last'.inst \in {"StoreLocal"} \cup Returns
           /\ last'.r = "Ok"
           /\ InCallee(vm)
           /\ Len(StackOf(vm)) >= TopFrame(vm).h)
          => /\ Len(StackOf(vm)') >= TopFrame(vm).h
             /\ SubSeq(StackOf(vm)', 1, TopFrame(vm).h) = CallerSlots(vm, StackOf(vm))]_vars

\* C37: LaunchThread n (without join) on a closure with n parameters pops
\* the closure and its n arguments and pushes exactly one thread handle
\* without waiting for the worker to finish; when the popped value is not a
\* closure context it fails with a thread-create error and spawns nothing.
\* (In a build with concurrency, and while the registry can create a
\* worker.)
C37_LaunchThreadPushesHandle ==
    [][\A vm \in VMs :
          (/\ last'.vm = vm
           /\ last'.inst = "LaunchThread"
           /\ concurrency
           /\ Len(StackOf(vm)) >= 1)
          => LET n == last'.n
                 height == Len(StackOf(vm))
             IN IF OnTop(vm).t = "ClosureContext"
                THEN (/\ num_parameters(OnTop(vm)) = n
                      /\ height >= n + 1
                      /\ IdleWorkers # {})
                     => /\ last'.r = "Ok"
                        /\ status'[vm] = "running"
                        /\ Len(StackOf(vm)') = height - n
                        /\ SubSeq(StackOf(vm)', 1, height - n - 1)
                               = SubSeq(StackOf(vm), 1, height - n - 1)
                        /\ TopOf(ds'[vm]).t = "Thread"
                        /\ TopOf(ds'[vm]).a \in IdleWorkers
                        /\ status'[TopOf(ds'[vm]).a] = "running"
                        /\ ds'[TopOf(ds'[vm]).a].stack
                               = SubSeq(StackOf(vm), height - n, height - 1)
                                 \o [i \in 1 .. num_locals(OnTop(vm)) - n |-> Noval]
                ELSE /\ status'[vm] = "error"
                     /\ error'[vm].kind = "ThreadCreateError"
                     /\ NoWorkerCreated]_vars

C37_LaunchedWithOneArgument ==
    /\ last.inst = "LaunchThread"
    /\ last.n = 1
    /\ last.r = "Ok"
    /\ status[MainVM] = "running"
    /\ StackOf(MainVM) = <<ThreadObj(1)>>
    /\ status[1] = "running"
    /\ StackOf(1) = <<IntObj(1)>>

-----------------------------------------------------------------------------
(* Properties of BosonLang *)

GlobalsOf(vm) == pools[gp[vm]]

\* C38: successive eval_state calls on the same BosonLang carry the global
\* pool of the previous VM into the newly created VM, so a global stored by
\* one evaluated buffer is readable by the next; this also holds when the
\* previous evaluation ended in a runtime error (globals written before
\* the error persist).
C38_GlobalsCarriedAcrossEvaluations ==
    [][/\ (last'.inst = "NewVM" /\ status[MainVM] \in {"done", "error"})
          => GlobalsOf(MainVM)' = GlobalsOf(MainVM)
       /\ (/\ last'.inst = "LoadGlobal"
           /\ last'.r = "Ok"
           /\ wrote[MainVM] = {})
          => TopOf(ds'[MainVM]) = snap[MainVM][last'.n + 1]]_vars

C38_GlobalOfPreviousBufferRead ==
    /\ last.inst = "LoadGlobal"
    /\ last.r = "Ok"
    /\ wrote[MainVM] = {}
    /\ snap[MainVM] = GlobalPoolOn(IntObj(1))
    /\ StackOf(MainVM) = <<IntObj(1)>>

\* C39: eval_state returns None exactly when parsing, compiling or VM
\* execution fails and Some(result) otherwise; when parsing or compiling
\* fails, the existing VM and its globals are left unchanged.
C39_EvalStateReturn ==
    [][last'.inst = "eval_state"
       => IF Returned
          THEN /\ last'.r \in {"ParserError", "CompileError"}
               /\ last'.objs = <<>>
               /\ UNCHANGED <<ds, cs, status, error, result, pools, gp, heap>>
          ELSE /\ status[MainVM] = "error" => last'.objs = <<>>
               /\ status[MainVM] = "done" => last'.objs = <<result[MainVM]>>
               /\ last'.r = "VMError" <=> status[MainVM] = "error"]_vars

C39_CompileErrorLeftGlobals ==
    /\ last.inst = "eval_state"
    /\ last.r = "CompileError"
    /\ last.objs = <<>>
    /\ status[MainVM] = "done"
    /\ GlobalsOf(MainVM) = GlobalPoolOn(IntObj(1))

====
